---- MODULE Spec2Model ----
(***************************************************************************)
(* Model of the duplicate-file-removal scripts.                            *)
(*                                                                         *)
(*   src/src/folder.py              process_folders   (folders of A and C) *)
(*   src/src/Compressed_package.py  process_archives  (archives of A, C)   *)
(*   src/Files.py                   process_regular_files (files of A, C)  *)
(*   src/Plagiarism_check.py        remove_duplicates_and_matches (B, D)   *)
(*                                                                         *)
(* process_folders and process_archives are the same three-pass procedure  *)
(* over two kinds of manifest; the variable kind says which one runs.      *)
(***************************************************************************)
EXTENDS Integers, Sequences, FiniteSets, TLC

(***************************************************************************)
(* Bounds of the model.                                                    *)
(***************************************************************************)
\* number of first-level items under the reference folder A
NumRef == 2
\* number of first-level items under the candidate folder C
NumCand == 3
\* removals that the operating system may refuse during one run
MaxFail == 1
\* candidates of equal content in the self-deduplication scenario
SameCount == 3
\* file names in the folders of the plain-file scripts
NumNames == 1
\* files whose content cannot be read during one run
MaxUnreadable == 1

\* the names a plain file of the first level of A or C may have are 1..NumRegular
NumRegular == 2

\* E holds at most NumArch archives
NumArch == 3

\* E holds at most NumDirs directories
NumDirs == 3

\* the depth of nested calls of get_archive_contents at which the interpreter
\* raises RecursionError
RecursionLimit == 3

(***************************************************************************)
(* Program constants.                                                      *)
(***************************************************************************)
\* the literal 0.15 of the size-ratio prefilter, as the fraction 15 / 100
ThresholdNum == 15
ThresholdDen == 100

(***************************************************************************)
(* Paths.  A first-level item is named by its root folder and the rank of  *)
(* its name in lexical order: <<"C", 1>> sorts before <<"C", 2>>, and      *)
(* every path under "A" sorts before every path under "C" (the roots are   *)
(* the literals "A" and "C").                                              *)
(***************************************************************************)
FOLDER_A == "A"
FOLDER_C == "C"

RootRank(root) == IF root = FOLDER_A THEN 1 ELSE 2

Path(root, n) == [root |-> root, name |-> n]

\* Python's < on two path strings
PathLess(p, q) ==
    \/ RootRank(p.root) < RootRank(q.root)
    \/ p.root = q.root /\ p.name < q.name

RefPaths == {Path(FOLDER_A, n) : n \in 1..NumRef}
CandPaths == {Path(FOLDER_C, n) : n \in 1..NumCand}

(***************************************************************************)
(* Entry names inside an item.  A manifest key is a relative path; the     *)
(* folder scan appends "/" to the name of a directory.  SortedKeys lists   *)
(* every key in the order Python sorts the strings.                        *)
(***************************************************************************)
Names == {"a", "b", "c", "d"}

WithSlash(n) ==
    CASE n = "a" -> "a/"
      [] n = "b" -> "b/"
      [] n = "c" -> "c/"
      [] n = "d" -> "d/"

SortedKeys == <<"a", "a/", "b", "b/", "c", "c/", "d", "d/">>

\* the empty dict
EmptyDict == [k \in {} |-> 0]

(***************************************************************************)
(* What an item holds on disk: its files with their sizes, its (empty)     *)
(* directories, and the files on which os.path.getsize raises OSError.     *)
(***************************************************************************)
Tree(files, dirs) == [files |-> files, dirs |-> dirs, denied |-> {}]

\* the same tree with the named files inaccessible
Denied(tree, names) == [tree EXCEPT !.denied = names]

\* only an empty directory d: total size 0
T_dir   == Tree(EmptyDict, {"d"})
\* an empty file a and an empty directory d: total size 0
T_zero  == Tree("a" :> 0, {"d"})
\* total size 30
T_ab    == Tree(("a" :> 10) @@ ("b" :> 20), {})
\* total size 34: holds T_ab, size ratio 4 / 34
T_abc4  == Tree(("a" :> 10) @@ ("b" :> 20) @@ ("c" :> 4), {})
\* total size 40: holds T_abc4, size ratio 6 / 40 = 0.15; holds T_ab, 10 / 40
T_abcd  == Tree(("a" :> 10) @@ ("b" :> 20) @@ ("c" :> 4) @@ ("d" :> 6), {})
\* total size 60: holds T_ab, size ratio 30 / 60
T_abc30 == Tree(("a" :> 10) @@ ("b" :> 20) @@ ("c" :> 30), {})

\* only an empty file d: total size 0
T_file  == Tree("d" :> 0, {})
\* T_ab with its file b inaccessible
T_ab_denied == Denied(T_ab, {"b"})
\* only the file a of T_ab
T_a     == Tree("a" :> 10, {})

\* the trees a candidate item, and a reference item, is drawn from
CandTrees == {T_dir, T_ab, T_abc4}
RefTrees == {T_zero, T_abc4, T_abcd}

\* every tree of the model
AllTrees == CandTrees \cup RefTrees \cup {T_abc30, T_file, T_ab_denied, T_a}

VARIABLES
    kind,             \* "folder": process_folders, "archive": process_archives
    fs,               \* the disk: path of each existing first-level item -> its tree
    fs0,              \* the disk at the start of the run (history)
    listdir_a,        \* the order os.listdir returns the items of A in
    listdir_c,        \* the order os.listdir returns the items of C in
    pc,               \* position of the run
    folders_a,        \* dict path -> data, in insertion order
    folders_c,        \* dict path -> data, in insertion order
    content_groups,   \* dict content_key -> list of paths, in insertion order
    to_delete,        \* the deletion list of the current pass
    processed_pairs,  \* set of pair keys of the containment pass
    scanned_pairs,    \* pairs the subset scan was run on (history)
    fails,            \* removals refused so far
    log_file,         \* lines of the report, in order
    seven_zip,        \* what check_7z_available returns: "7z" or "None"
    logger_errors     \* the lines written with logger.error, in order

VARIABLES
    prog,             \* "regular": process_regular_files, "plagiarism": remove_duplicates_and_matches
    fsys,             \* the plain files on the disk: path -> content
    fsys0,            \* the plain files at the start of the run (history)
    unreadable,       \* the files whose content cannot be read
    sub_first,        \* whether os.scandir returns the subfolder before the files
    pcf,              \* position of the run
    files_a,          \* dict name -> info of A, in insertion order
    files_c,          \* dict name -> info of C, in insertion order
    f_to_delete,      \* to_delete of process_regular_files
    f_idx,            \* index of the loop over files_c.items() / d_files.items()
    deleted_count,
    b_files,          \* dict (name, size) -> list of paths of B
    d_files,          \* dict (name, size) -> list of paths of D
    removed_duplicates,
    removed_matches,
    matched,          \* removed files with the reference they matched (history)
    locked,           \* the files the system refuses to remove
    f_log             \* lines of the report and of the log, in order

varsFiles == <<prog, fsys, fsys0, unreadable, sub_first, pcf, files_a, files_c,
               f_to_delete, f_idx, deleted_count, b_files, d_files,
               removed_duplicates, removed_matches, matched, locked, f_log>>

varsFolders == <<kind, fs, fs0, listdir_a, listdir_c, pc, folders_a, folders_c,
                 content_groups, to_delete, processed_pairs, scanned_pairs,
                 fails, log_file, seven_zip, logger_errors>>

VARIABLES
    pck,              \* position of the run of check.py
    e_dir,            \* the archives of E: name -> archive
    e_dir0,           \* the archives of E at the start of the run (history)
    f_dir,            \* the archives moved to F: name -> archive
    e_listing,        \* the order in which E_DIR.iterdir() yields the names
    ck_log,           \* lines of deduplication.log, in order
    e_sub,            \* the directories of E: name -> tree
    e_sub0,           \* the directories of E at the start of the run (history)
    f_sub             \* the directories moved to F: name -> tree

varsCheck == <<pck, e_dir, e_dir0, f_dir, e_listing, ck_log, e_sub, e_sub0, f_sub>>

VARIABLES
    pcu,              \* position of the run of unpack.py
    d_disk,           \* what is below D: path -> node
    d_disk0,          \* what was below D at the start of the run (history)
    d_listing,        \* the order in which iterdir() yields the names
    iteration,        \* the loop variable of process_d_folder
    compressed_files, \* the archives found by the scan of this round
    u_idx,            \* index of the next archive of compressed_files
    processed_count,  \* the counter of deleted archives
    u_log             \* the lines printed by log(), in order

varsUnpack == <<pcu, d_disk, d_disk0, d_listing, iteration, compressed_files,
                u_idx, processed_count, u_log>>

vars == <<varsFolders, varsFiles, varsCheck, varsUnpack>>

(***************************************************************************)
(* Manifest construction.                                                  *)
(***************************************************************************)
RECURSIVE SumValues(_, _)
\* sum(contents.values())
SumValues(contents, keys) ==
    IF keys = {} THEN 0
    ELSE LET k == CHOOSE x \in keys : TRUE
         IN contents[k] + SumValues(contents, keys \ {k})

\* mutant: the first inaccessible file ends the walk with nothing
scan_folder_contents_abort(tree) ==
    IF tree.denied # {} THEN EmptyDict
    ELSE [k \in DOMAIN tree.files \cup {WithSlash(d) : d \in tree.dirs} |->
             IF k \in DOMAIN tree.files THEN tree.files[k] ELSE 0]

\* os.walk over one folder: every file with its size - but for the files
\* whose size cannot be read -, every directory as a zero-size entry whose
\* key ends in "/"
scan_folder_contents(tree) ==
    [k \in (DOMAIN tree.files \ tree.denied) \cup {WithSlash(d) : d \in tree.dirs} |->
        IF k \in DOMAIN tree.files THEN tree.files[k] ELSE 0]

\* the logger.error lines of scan_folder_contents on the folder at full_path:
\* one for every file whose size cannot be read
scan_folder_errors(full_path, tree) ==
    LET keys == SelectSeq(SortedKeys, LAMBDA k : k \in tree.denied)
    IN [i \in 1..Len(keys) |->
           [line |-> "access_error", path |-> <<full_path, keys[i]>>]]

RECURSIVE scan_errors(_, _)
\* the logger.error lines of scan_folders over a listing
scan_errors(disk, listing) ==
    IF listing = <<>> THEN <<>>
    ELSE scan_folder_errors(Head(listing), disk[Head(listing)])
             \o scan_errors(disk, Tail(listing))

\* the listing of 7z: every member under its Path, a directory (Folder = +)
\* with size 0, a file with its Size
list_archive_contents(tree) ==
    [k \in DOMAIN tree.files \cup tree.dirs |->
        IF k \in tree.dirs THEN 0 ELSE tree.files[k]]

\* the value stored for one item: contents, total_size, file_count
ManifestData(contents) ==
    [contents |-> contents,
     total_size |-> SumValues(contents, DOMAIN contents),
     file_count |-> Cardinality(DOMAIN contents)]

RECURSIVE scan_folders(_, _)
\* folders of the parent in listing order; a folder whose scan is empty is
\* left out (if contents:)
scan_folders(disk, listing) ==
    IF listing = <<>> THEN <<>>
    ELSE LET full_path == Head(listing)
             contents == scan_folder_contents(disk[full_path])
             rest == scan_folders(disk, Tail(listing))
         IN IF contents # EmptyDict
            THEN <<[path |-> full_path, data |-> ManifestData(contents)]>> \o rest
            ELSE rest

RECURSIVE scan_archives(_, _)
\* archives of the folder in listing order; an archive with no member is kept
\* (if contents is not None:)
scan_archives(disk, listing) ==
    IF listing = <<>> THEN <<>>
    ELSE LET full_path == Head(listing)
             contents == list_archive_contents(disk[full_path])
         IN <<[path |-> full_path, data |-> ManifestData(contents)]>>
                \o scan_archives(disk, Tail(listing))

(***************************************************************************)
(* Comparator.                                                             *)
(***************************************************************************)
\* mutant: the comparison of is_folder_contained in the place of equality
are_folders_identical_subset(folder1, folder2) ==
    IF folder1.file_count > folder2.file_count THEN FALSE
    ELSE \A file \in DOMAIN folder1.contents :
            /\ file \in DOMAIN folder2.contents
            /\ folder2.contents[file] = folder1.contents[file]

\* mutant: only the number of entries is compared
are_folders_identical_count_only(folder1, folder2) ==
    folder1.file_count = folder2.file_count

are_folders_identical(folder1, folder2) ==
    IF folder1.file_count # folder2.file_count THEN FALSE
    ELSE IF folder1.total_size # folder2.total_size THEN FALSE
    ELSE folder1.contents = folder2.contents

are_archives_identical(archive1, archive2) ==
    IF archive1.file_count # archive2.file_count THEN FALSE
    ELSE IF archive1.total_size # archive2.total_size THEN FALSE
    ELSE archive1.contents = archive2.contents

is_folder_contained(folder_small, folder_large) ==
    IF folder_small.file_count > folder_large.file_count THEN FALSE
    ELSE \A file \in DOMAIN folder_small.contents :
            /\ file \in DOMAIN folder_large.contents
            /\ folder_large.contents[file] = folder_small.contents[file]

is_archive_contained(archive_small, archive_large) ==
    IF archive_small.file_count > archive_large.file_count THEN FALSE
    ELSE \A file \in DOMAIN archive_small.contents :
            /\ file \in DOMAIN archive_large.contents
            /\ archive_large.contents[file] = archive_small.contents[file]

\* the comparison the run of kind k makes in its identical pass
identical(k, m1, m2) ==
    IF k = "folder" THEN are_folders_identical(m1, m2)
    ELSE are_archives_identical(m1, m2)

\* mutant: the test file_count < file_count is left out
contains_without_count(k, small, large) ==
    IF k = "folder" THEN is_folder_contained(small, large)
    ELSE is_archive_contained(small, large)

\* the condition of the containment pass:
\*   is_folder_contained(c_data, a_data) and c_data['file_count'] < a_data['file_count']
contains(k, small, large) ==
    /\ IF k = "folder" THEN is_folder_contained(small, large)
       ELSE is_archive_contained(small, large)
    /\ small.file_count < large.file_count

Abs(x) == IF x < 0 THEN -x ELSE x
Max(x, y) == IF x > y THEN x ELSE y

\* mutant: the threshold is 0.5
size_ratio_exceeds_half(c_total, a_total) ==
    2 * Abs(c_total - a_total) > Max(c_total, a_total)

\* size_ratio > 0.15 for size_ratio = abs(c - a) / max(c, a), max(c, a) > 0,
\* in integer arithmetic
size_ratio_exceeds(c_total, a_total) ==
    ThresholdDen * Abs(c_total - a_total) > ThresholdNum * Max(c_total, a_total)

RECURSIVE dumps_from(_, _)
dumps_from(contents, i) ==
    IF i > Len(SortedKeys) THEN <<>>
    ELSE (IF SortedKeys[i] \in DOMAIN contents
          THEN <<(<<SortedKeys[i], contents[SortedKeys[i]]>>)>> ELSE <<>>)
         \o dumps_from(contents, i + 1)

\* json.dumps(contents, sort_keys=True): the key/value pairs in sorted key order
json_dumps(contents) == dumps_from(contents, 1)

\* tuple(sorted((c_path, a_path)))
pair_key(c_path, a_path) ==
    IF PathLess(a_path, c_path) THEN <<a_path, c_path>> ELSE <<c_path, a_path>>

(***************************************************************************)
(* Helpers on the ordered dicts and lists of the run.                      *)
(***************************************************************************)
Range(seq) == {seq[i] : i \in 1..Len(seq)}

\* del d[path]
DictDel(d, path) == SelectSeq(d, LAMBDA item : item.path # path)

\* os.path.exists(path)
exists(disk, path) == path \in DOMAIN disk

\* mutant: the item of the same name goes from every root
Removed_by_name(disk, path) ==
    [q \in {x \in DOMAIN disk : x.name # path.name} |-> disk[q]]

\* the disk without the item at path
Removed(disk, path) == [q \in DOMAIN disk \ {path} |-> disk[q]]

(***************************************************************************)
(* Pass 1: duplicates inside C.                                            *)
(***************************************************************************)
RECURSIVE group_by_content(_, _)
\* content_groups[json.dumps(data['contents'], sort_keys=True)].append(path)
\* for every item of folders_c, in dict order
group_by_content(items, groups) ==
    IF items = <<>> THEN groups
    ELSE LET path == Head(items).path
             content_key == json_dumps(Head(items).data.contents)
             hit == {j \in 1..Len(groups) : groups[j].key = content_key}
         IN group_by_content(
                Tail(items),
                IF hit = {}
                THEN Append(groups, [key |-> content_key, paths |-> <<path>>])
                ELSE LET j == CHOOSE x \in hit : TRUE
                     IN [groups EXCEPT ![j].paths = Append(@, path)])

\* keep_path = paths[0]
keep_path(paths) == paths[1]

\* mutant: every member of the group is deleted (paths[0:])
delete_paths_all(paths) == paths

\* mutant: the last member is kept, not the first (paths[:-1])
delete_paths_but_last(paths) == SubSeq(paths, 1, Len(paths) - 1)

\* delete_paths = paths[1:]
delete_paths(paths) == Tail(paths)

RECURSIVE group_deletes(_)
\* to_delete after the loop over content_groups
group_deletes(groups) ==
    IF groups = <<>> THEN <<>>
    ELSE (IF Len(Head(groups).paths) > 1
          THEN delete_paths(Head(groups).paths) ELSE <<>>)
         \o group_deletes(Tail(groups))

DupLines(paths) == [i \in 1..Len(paths) |-> [line |-> "group_delete", path |-> paths[i]]]

RECURSIVE group_lines(_)
\* the report lines written by the loop over content_groups
group_lines(groups) ==
    IF groups = <<>> THEN <<>>
    ELSE (IF Len(Head(groups).paths) > 1
          THEN <<[line |-> "group", count |-> Len(Head(groups).paths)],
                 [line |-> "group_keep", path |-> keep_path(Head(groups).paths)]>>
               \o DupLines(delete_paths(Head(groups).paths))
          ELSE <<>>)
         \o group_lines(Tail(groups))

(***************************************************************************)
(* Pass 2: C identical to A.                                               *)
(***************************************************************************)
RECURSIVE last_identical(_, _, _, _)
\* mutant: the loop has no break, the last identical reference is recorded
last_identical(k, refs, c_data, j) ==
    IF j > Len(refs) THEN 0
    ELSE LET later == last_identical(k, refs, c_data, j + 1)
         IN IF later > 0 THEN later
            ELSE IF identical(k, refs[j].data, c_data) THEN j ELSE 0

RECURSIVE first_identical(_, _, _, _)
\* the inner loop over folders_a for one candidate: the index of the first
\* reference identical to it (where the loop breaks), 0 when there is none
first_identical(k, refs, c_data, j) ==
    IF j > Len(refs) THEN 0
    ELSE IF identical(k, refs[j].data, c_data) THEN j
    ELSE first_identical(k, refs, c_data, j + 1)

RECURSIVE identical_pass(_, _, _, _, _, _)
\* the loop over list(folders_c.items()) from item i on: to_delete and the
\* report lines after it
identical_pass(k, refs, items, i, dels, lines) ==
    IF i > Len(items) THEN [dels |-> dels, lines |-> lines]
    ELSE LET c == items[i]
             j == first_identical(k, refs, c.data, 1)
         IN IF j > 0 /\ c.path \notin Range(dels)
            THEN identical_pass(k, refs, items, i + 1, Append(dels, c.path),
                     Append(lines, [line |-> "plan", target |-> c.path,
                                    keeper |-> refs[j].path, reason |-> "identical"]))
            ELSE identical_pass(k, refs, items, i + 1, dels, lines)

(***************************************************************************)
(* Pass 3: C contained in A.  The inner loop over folders_a for one        *)
(* candidate c, from reference j on.  Its result: how the loop ended       *)
(* ("mark": appended to to_delete and break, "none": the loop ran out,     *)
(* "error": ZeroDivisionError raised by the size ratio), the reference of  *)
(* the mark, and processed_pairs and the scanned pairs afterwards.         *)
(***************************************************************************)
RECURSIVE containment_scan(_, _, _, _, _, _, _, _)
containment_scan(k, disk, dels, refs, c, j, pairs, scanned) ==
    IF j > Len(refs)
    THEN [end |-> "none", keeper |-> c.path, pairs |-> pairs, scanned |-> scanned]
    ELSE LET a == refs[j]
             key == pair_key(c.path, a.path)
             pairs2 == pairs \cup {key}
             scanned2 == scanned \cup {key}
         IN IF key \in pairs
            THEN containment_scan(k, disk, dels, refs, c, j + 1, pairs, scanned)
            ELSE IF Max(c.data.total_size, a.data.total_size) = 0
            THEN [end |-> "error", keeper |-> c.path, pairs |-> pairs2, scanned |-> scanned]
            ELSE IF size_ratio_exceeds(c.data.total_size, a.data.total_size)
            THEN containment_scan(k, disk, dels, refs, c, j + 1, pairs2, scanned)
            ELSE IF /\ contains(k, c.data, a.data)
                    /\ c.path \notin Range(dels)
                    /\ exists(disk, c.path)
            THEN [end |-> "mark", keeper |-> a.path, pairs |-> pairs2, scanned |-> scanned2]
            ELSE containment_scan(k, disk, dels, refs, c, j + 1, pairs2, scanned2)

RECURSIVE containment_pass(_, _, _, _, _, _, _, _, _)
\* the loop over list(folders_c.items()) from item i on: how it ended ("done"
\* or "error"), to_delete, the report lines, processed_pairs and the scanned
\* pairs after it
containment_pass(k, disk, refs, items, i, dels, lines, pairs, scanned) ==
    IF i > Len(items)
    THEN [end |-> "done", dels |-> dels, lines |-> lines,
          pairs |-> pairs, scanned |-> scanned]
    ELSE LET c == items[i]
             r == containment_scan(k, disk, dels, refs, c, 1, pairs, scanned)
         IN IF r.end = "error"
            THEN [end |-> "error", dels |-> dels, lines |-> lines,
                  pairs |-> r.pairs, scanned |-> r.scanned]
            ELSE IF r.end = "mark"
            THEN containment_pass(k, disk, refs, items, i + 1, Append(dels, c.path),
                     Append(lines, [line |-> "plan", target |-> c.path,
                                    keeper |-> r.keeper, reason |-> "contained"]),
                     r.pairs, r.scanned)
            ELSE containment_pass(k, disk, refs, items, i + 1, dels, lines,
                                  r.pairs, r.scanned)

(***************************************************************************)
(* The run of process_folders / process_archives.                          *)
(***************************************************************************)
\* the disks a run may start from: every item of A and C holds one tree
Disks ==
    {ta @@ tc : ta \in [RefPaths -> RefTrees], tc \in [CandPaths -> CandTrees]}

\* the orders os.listdir is taken to return the items of C in: sorted by name,
\* and the reverse
ListingOrders(root, n) ==
    {[i \in 1..n |-> Path(root, i)], [i \in 1..n |-> Path(root, n + 1 - i)]}

\* the items of A are numbered in the order os.listdir returns them
ListingOfA == [i \in 1..NumRef |-> Path(FOLDER_A, i)]

\* the start of a run over one of the given disks with n items in C
InitRun(disks, n) ==
    /\ kind \in {"folder", "archive"}
    /\ fs \in disks
    /\ fs0 = fs
    /\ listdir_a = ListingOfA
    /\ listdir_c \in ListingOrders(FOLDER_C, n)
    /\ pc = "scan"
    /\ folders_a = <<>>
    /\ folders_c = <<>>
    /\ content_groups = <<>>
    /\ to_delete = <<>>
    /\ processed_pairs = {}
    /\ scanned_pairs = {}
    /\ fails = 0
    /\ log_file = <<>>
    /\ seven_zip \in IF kind = "archive" THEN {"7z", "None"} ELSE {"None"}
    /\ logger_errors = <<>>

InitFolders == InitRun(Disks, NumCand)

\* process_archives: check_7z_available() is None, the error is logged and
\* False returned before anything is scanned; __main__ then exits with 1
SevenZipMissing ==
    /\ pc = "scan"
    /\ kind = "archive"
    /\ seven_zip = "None"
    /\ pc' = "failed"
    /\ logger_errors' = Append(logger_errors, [line |-> "no_7z", path |-> <<>>])
    /\ UNCHANGED <<seven_zip, varsFiles, varsCheck, varsUnpack>>
    /\ UNCHANGED <<kind, fs, fs0, listdir_a, listdir_c, folders_a, folders_c,
                   content_groups, to_delete, processed_pairs, scanned_pairs,
                   fails, log_file>>

\* mutant: the archives are scanned whether or not 7z was found
Scan_unchecked ==
    /\ pc = "scan"
    /\ folders_a' = IF kind = "folder" THEN scan_folders(fs, listdir_a)
                    ELSE scan_archives(fs, listdir_a)
    /\ folders_c' = IF kind = "folder" THEN scan_folders(fs, listdir_c)
                    ELSE scan_archives(fs, listdir_c)
    /\ logger_errors' = IF kind = "folder"
                        THEN logger_errors \o scan_errors(fs, listdir_a)
                                           \o scan_errors(fs, listdir_c)
                        ELSE logger_errors
    /\ log_file' = <<[line |-> "title"]>>
    /\ pc' = "group"
    /\ UNCHANGED <<seven_zip, varsFiles, varsCheck, varsUnpack>>
    /\ UNCHANGED <<kind, fs, fs0, listdir_a, listdir_c, content_groups, to_delete,
                   processed_pairs, scanned_pairs, fails>>

\* folders_a = scan_folders(folder_a); folders_c = scan_folders(folder_c);
\* the report is opened and its title written.  process_archives gets here
\* only when 7z was found.
Scan ==
    /\ pc = "scan"
    /\ kind = "archive" => seven_zip # "None"
    /\ folders_a' = IF kind = "folder" THEN scan_folders(fs, listdir_a)
                    ELSE scan_archives(fs, listdir_a)
    /\ folders_c' = IF kind = "folder" THEN scan_folders(fs, listdir_c)
                    ELSE scan_archives(fs, listdir_c)
    /\ logger_errors' = IF kind = "folder"
                        THEN logger_errors \o scan_errors(fs, listdir_a)
                                           \o scan_errors(fs, listdir_c)
                        ELSE logger_errors
    /\ log_file' = <<[line |-> "title"]>>
    /\ pc' = "group"
    /\ UNCHANGED <<seven_zip, varsFiles, varsCheck, varsUnpack>>
    /\ UNCHANGED <<kind, fs, fs0, listdir_a, listdir_c, content_groups, to_delete,
                   processed_pairs, scanned_pairs, fails>>

\* mutant: the first duplicate is removed inside the planning loop
FindDuplicates_eager ==
    /\ pc = "group"
    /\ content_groups' = group_by_content(folders_c, <<>>)
    /\ to_delete' = group_deletes(content_groups')
    /\ log_file' = log_file \o group_lines(content_groups')
    /\ fs' = IF to_delete' # <<>> THEN Removed(fs, Head(to_delete')) ELSE fs
    /\ pc' = IF to_delete' # <<>> THEN "delete_dup" ELSE "identical"
    /\ UNCHANGED <<seven_zip, logger_errors, varsFiles, varsCheck, varsUnpack>>
    /\ UNCHANGED <<kind, fs0, listdir_a, listdir_c, folders_a, folders_c,
                   processed_pairs, scanned_pairs, fails>>

\* pass 1, planning: the groups of equal content and the deletion list
FindDuplicates ==
    /\ pc = "group"
    /\ content_groups' = group_by_content(folders_c, <<>>)
    /\ to_delete' = group_deletes(content_groups')
    /\ log_file' = log_file \o group_lines(content_groups')
    /\ pc' = IF to_delete' # <<>> THEN "delete_dup" ELSE "identical"
    /\ UNCHANGED <<seven_zip, logger_errors, varsFiles, varsCheck, varsUnpack>>
    /\ UNCHANGED <<kind, fs, fs0, listdir_a, listdir_c, folders_a, folders_c,
                   processed_pairs, scanned_pairs, fails>>

\* mutant: a refused removal leaves the loop and the run
DeleteNext_abort(phase, reason, after) ==
    /\ pc = phase
    /\ to_delete # <<>>
    /\ LET path == Head(to_delete)
       IN \/ /\ exists(fs, path)
             /\ fs' = Removed(fs, path)
             /\ log_file' = Append(log_file,
                    [line |-> "deleted", path |-> path, reason |-> reason])
             /\ fails' = fails
             /\ folders_c' = DictDel(folders_c, path)
             /\ to_delete' = Tail(to_delete)
             /\ pc' = IF to_delete' # <<>> THEN phase ELSE after
          \/ /\ exists(fs, path)
             /\ fails < MaxFail
             /\ fs' = fs
             /\ log_file' = Append(log_file, [line |-> "delete_failed", path |-> path])
             /\ fails' = fails + 1
             /\ folders_c' = folders_c
             /\ to_delete' = <<>>
             /\ pc' = "done"
    /\ UNCHANGED <<seven_zip, logger_errors, varsFiles, varsCheck, varsUnpack>>
    /\ UNCHANGED <<kind, fs0, listdir_a, listdir_c, folders_a, content_groups,
                   processed_pairs, scanned_pairs>>

\* mutant: the removal of an absent target is tried, raises and is recorded
DeleteNext_absent_fails(phase, reason, after) ==
    /\ pc = phase
    /\ to_delete # <<>>
    /\ LET path == Head(to_delete)
       IN /\ \/ /\ exists(fs, path)
                /\ fs' = Removed(fs, path)
                /\ log_file' = Append(log_file,
                       [line |-> "deleted", path |-> path, reason |-> reason])
                /\ fails' = fails
             \/ /\ exists(fs, path)
                /\ fails < MaxFail
                /\ fs' = fs
                /\ log_file' = Append(log_file, [line |-> "delete_failed", path |-> path])
                /\ fails' = fails + 1
             \/ /\ ~exists(fs, path)
                /\ log_file' = Append(log_file, [line |-> "delete_failed", path |-> path])
                /\ UNCHANGED <<fs, fails>>
          /\ folders_c' = DictDel(folders_c, path)
          /\ to_delete' = Tail(to_delete)
          /\ pc' = IF to_delete' # <<>> THEN phase ELSE after
    /\ UNCHANGED <<seven_zip, logger_errors, varsFiles, varsCheck, varsUnpack>>
    /\ UNCHANGED <<kind, fs0, listdir_a, listdir_c, folders_a, content_groups,
                   processed_pairs, scanned_pairs>>

\* safe_delete_folder / safe_delete_file on the next path of to_delete, then
\* del folders_c[path].  The removal succeeds, or raises (caught and logged),
\* or is not tried because the path does not exist.
DeleteNext(phase, reason, after) ==
    /\ pc = phase
    /\ to_delete # <<>>
    /\ LET path == Head(to_delete)
       IN /\ \/ /\ exists(fs, path)
                /\ fs' = Removed(fs, path)
                /\ log_file' = Append(log_file,
                       [line |-> "deleted", path |-> path, reason |-> reason])
                /\ fails' = fails
             \/ /\ exists(fs, path)
                /\ fails < MaxFail
                /\ fs' = fs
                /\ log_file' = Append(log_file, [line |-> "delete_failed", path |-> path])
                /\ fails' = fails + 1
             \/ /\ ~exists(fs, path)
                /\ UNCHANGED <<fs, log_file, fails>>
          /\ folders_c' = DictDel(folders_c, path)
          /\ to_delete' = Tail(to_delete)
          /\ pc' = IF to_delete' # <<>> THEN phase ELSE after
    /\ UNCHANGED <<seven_zip, logger_errors, varsFiles, varsCheck, varsUnpack>>
    /\ UNCHANGED <<kind, fs0, listdir_a, listdir_c, folders_a, content_groups,
                   processed_pairs, scanned_pairs>>

\* pass 1, execution
DeleteDuplicates == DeleteNext("delete_dup", "duplicate in C", "identical")

\* pass 2, planning
FindIdentical ==
    /\ pc = "identical"
    /\ LET r == identical_pass(kind, folders_a, folders_c, 1, <<>>, <<>>)
       IN /\ to_delete' = r.dels
          /\ log_file' = log_file \o r.lines
          /\ pc' = IF r.dels # <<>> THEN "delete_identical" ELSE "contained"
    /\ UNCHANGED <<seven_zip, logger_errors, varsFiles, varsCheck, varsUnpack>>
    /\ UNCHANGED <<kind, fs, fs0, listdir_a, listdir_c, folders_a, folders_c,
                   content_groups, processed_pairs, scanned_pairs, fails>>

\* pass 2, execution
DeleteIdentical == DeleteNext("delete_identical", "identical to A", "contained")

\* pass 3, planning; a ZeroDivisionError leaves process_folders through the
\* with block, and the run ends without its last deletions
FindContained ==
    /\ pc = "contained"
    /\ LET r == containment_pass(kind, fs, folders_a, folders_c, 1, <<>>, <<>>, {}, {})
       IN /\ processed_pairs' = r.pairs
          /\ scanned_pairs' = r.scanned
          /\ to_delete' = r.dels
          /\ log_file' = log_file \o r.lines
          /\ pc' = IF r.end = "error" THEN "error"
                   ELSE IF r.dels # <<>> THEN "delete_contained" ELSE "done"
    /\ UNCHANGED <<seven_zip, logger_errors, varsFiles, varsCheck, varsUnpack>>
    /\ UNCHANGED <<kind, fs, fs0, listdir_a, listdir_c, folders_a, folders_c,
                   content_groups, fails>>

\* pass 3, execution
DeleteContained == DeleteNext("delete_contained", "contained in A", "done")

NextFolders ==
    \/ SevenZipMissing
    \/ Scan
    \/ FindDuplicates
    \/ DeleteDuplicates
    \/ FindIdentical
    \/ DeleteIdentical
    \/ FindContained
    \/ DeleteContained

(***************************************************************************)
(* Plain files: process_regular_files (A against C) and                    *)
(* remove_duplicates_and_matches (B against D).                            *)
(*                                                                         *)
(* A plain file is named by its root folder, the folder below the root it  *)
(* lies in ("" for the root itself) and the rank of its name.  Its content *)
(* is a sequence of bytes, its size the length of the content.             *)
(***************************************************************************)
FPath(root, dir, n) == [root |-> root, dir |-> dir, name |-> n]

FileContents == {<<0>>, <<1>>, <<0, 0>>}

FileNames == 1..NumNames

\* the files process_regular_files looks at: the first level of A and of C
RegularPaths == {FPath(root, "", n) : root \in {"A", "C"}, n \in 1..NumRegular}

\* the files remove_duplicates_and_matches looks at: B, and D with its subfolder s
PlagiarismPaths ==
    {FPath("B", "", n) : n \in FileNames}
        \cup {FPath("D", dir, n) : dir \in {"", "s"}, n \in FileNames}

\* every way to put files with contents at some of the paths
DisksOver(paths) ==
    UNION {[present -> FileContents] : present \in SUBSET paths}

\* os.path.getsize / Path.stat().st_size
getsize(d, path) == Len(d[path])

RECURSIVE md5_update(_, _, _)
\* hash_md5.update over the bytes of the content from position i on; the
\* digest is modelled as the number whose base-3 digits are the bytes plus one
\* (no two contents of the model collide)
md5_update(h, content, i) ==
    IF i > Len(content) THEN h
    ELSE md5_update(3 * h + content[i] + 1, content, i + 1)

\* the value calculate_file_hash returns when the file cannot be read; a
\* digest is a sequence of one number
None == <<>>

\* mutant: the digest depends on the length of the content alone
calculate_file_hash_of_size(d, unread, file_path) ==
    IF file_path \in unread \/ file_path \notin DOMAIN d THEN None
    ELSE <<Len(d[file_path])>>

\* calculate_file_hash: the digest of the content, or None when the file
\* cannot be opened or read
calculate_file_hash(d, unread, file_path) ==
    IF file_path \in unread \/ file_path \notin DOMAIN d THEN None
    ELSE <<md5_update(0, d[file_path], 1)>>

RECURSIVE get_regular_files(_, _, _)
\* the plain files of the first level of a folder, in listing order (by
\* name): name, size and path of each
get_regular_files(d, root, n) ==
    IF n > NumRegular THEN <<>>
    ELSE (IF FPath(root, "", n) \in DOMAIN d
          THEN <<[name |-> n, size |-> getsize(d, FPath(root, "", n)),
                  path |-> FPath(root, "", n)]>>
          ELSE <<>>)
         \o get_regular_files(d, root, n + 1)

\* a_file_map[(name, size)] = path, for every file of A
a_file_map(infos) ==
    [key \in {<<infos[i].name, infos[i].size>> : i \in 1..Len(infos)} |->
        LET i == CHOOSE j \in 1..Len(infos) :
                     /\ <<infos[j].name, infos[j].size>> = key
                     /\ \A j2 \in (j + 1)..Len(infos) :
                           <<infos[j2].name, infos[j2].size>> # key
        IN infos[i].path]

\* the disk without the file at path
FileRemoved(d, path) == [q \in DOMAIN d \ {path} |-> d[q]]

\* the reference written in the report line that plans the removal of path
PlannedReference(log, path) ==
    LET i == CHOOSE j \in 1..Len(log) : log[j].line = "plan" /\ log[j].target = path
    IN log[i].keeper

IdleFiles ==
    /\ prog = "none"
    /\ fsys = <<>>
    /\ fsys0 = <<>>
    /\ unreadable = {}
    /\ sub_first = FALSE
    /\ pcf = "idle"
    /\ files_a = <<>>
    /\ files_c = <<>>
    /\ f_to_delete = <<>>
    /\ f_idx = 1
    /\ deleted_count = 0
    /\ b_files = <<>>
    /\ d_files = <<>>
    /\ removed_duplicates = 0
    /\ removed_matches = 0
    /\ matched = {}
    /\ locked = {}
    /\ f_log = <<>>

InitRegular ==
    /\ prog = "regular"
    /\ fsys \in DisksOver(RegularPaths)
    /\ fsys0 = fsys
    /\ unreadable = {}
    /\ sub_first = FALSE
    /\ pcf = "scan"
    /\ files_a = <<>>
    /\ files_c = <<>>
    /\ f_to_delete = <<>>
    /\ f_idx = 1
    /\ deleted_count = 0
    /\ b_files = <<>>
    /\ d_files = <<>>
    /\ removed_duplicates = 0
    /\ removed_matches = 0
    /\ matched = {}
    /\ locked = {}
    /\ f_log = <<>>

\* files_a = get_regular_files(folder_a); files_c = get_regular_files(folder_c);
\* the report is opened and its title written
ScanRegular ==
    /\ prog = "regular" /\ pcf = "scan"
    /\ files_a' = get_regular_files(fsys, "A", 1)
    /\ files_c' = get_regular_files(fsys, "C", 1)
    /\ f_log' = <<[line |-> "title"]>>
    /\ f_idx' = 1
    /\ pcf' = IF files_c' # <<>> THEN "compare" ELSE "summary"
    /\ UNCHANGED <<varsFolders, varsCheck, varsUnpack>>
    /\ UNCHANGED <<prog, fsys, fsys0, unreadable, sub_first, f_to_delete,
                   deleted_count, b_files, d_files, removed_duplicates,
                   removed_matches, matched, locked>>

\* the files found unreadable so far together with the ones that open() may
\* refuse next: none, or one of the files about to be hashed
Refusals(unread, paths) ==
    {unread} \cup {unread \cup {p} : p \in IF Cardinality(unread) < MaxUnreadable
                                             THEN paths ELSE {}}

\* mutant: a hash that cannot be computed ends the loop over files_c
CompareNext_break ==
    /\ prog = "regular" /\ pcf = "compare"
    /\ f_idx <= Len(files_c)
    /\ LET info == files_c[f_idx]
           key == <<info.name, info.size>>
           map == a_file_map(files_a)
           a_file_path == map[key]
       IN IF key \notin DOMAIN map
          THEN UNCHANGED <<f_to_delete, f_log, unreadable>>
          ELSE \E unread \in Refusals(unreadable, {info.path, a_file_path}) :
                 LET c_hash == calculate_file_hash(fsys, unread, info.path)
                     a_hash == calculate_file_hash(fsys, unread, a_file_path)
                 IN /\ unreadable' = unread
                    /\ IF c_hash = None
                       THEN /\ f_log' = Append(f_log, [line |-> "hash_failed",
                                                       path |-> info.path])
                            /\ UNCHANGED f_to_delete
                       ELSE IF a_hash = None
                       THEN /\ f_log' = Append(f_log, [line |-> "hash_failed",
                                                       path |-> a_file_path])
                            /\ UNCHANGED f_to_delete
                       ELSE IF c_hash = a_hash
                       THEN /\ f_to_delete' = Append(f_to_delete, info.path)
                            /\ f_log' = Append(f_log,
                                   [line |-> "plan", target |-> info.path,
                                    keeper |-> a_file_path])
                       ELSE UNCHANGED <<f_to_delete, f_log>>
    /\ IF f_idx < Len(files_c) /\ unreadable' = unreadable
       THEN f_idx' = f_idx + 1 /\ pcf' = pcf
       ELSE f_idx' = 1 /\ pcf' = IF f_to_delete' # <<>> THEN "delete" ELSE "summary"
    /\ UNCHANGED <<varsFolders, varsCheck, varsUnpack>>
    /\ UNCHANGED <<prog, fsys, fsys0, sub_first, files_a, files_c,
                   deleted_count, b_files, d_files, removed_duplicates,
                   removed_matches, matched, locked>>

\* one turn of the loop over files_c.items(); a file turns out unreadable
\* when its hash is computed
CompareNext ==
    /\ prog = "regular" /\ pcf = "compare"
    /\ f_idx <= Len(files_c)
    /\ LET info == files_c[f_idx]
           key == <<info.name, info.size>>
           map == a_file_map(files_a)
           a_file_path == map[key]
       IN IF key \notin DOMAIN map
          THEN UNCHANGED <<f_to_delete, f_log, unreadable>>
          ELSE \E unread \in Refusals(unreadable, {info.path, a_file_path}) :
                 LET c_hash == calculate_file_hash(fsys, unread, info.path)
                     a_hash == calculate_file_hash(fsys, unread, a_file_path)
                 IN /\ unreadable' = unread
                    /\ IF c_hash = None
                       THEN /\ f_log' = Append(f_log, [line |-> "hash_failed",
                                                       path |-> info.path])
                            /\ UNCHANGED f_to_delete
                       ELSE IF a_hash = None
                       THEN /\ f_log' = Append(f_log, [line |-> "hash_failed",
                                                       path |-> a_file_path])
                            /\ UNCHANGED f_to_delete
                       ELSE IF c_hash = a_hash
                       THEN /\ f_to_delete' = Append(f_to_delete, info.path)
                            /\ f_log' = Append(f_log,
                                   [line |-> "plan", target |-> info.path,
                                    keeper |-> a_file_path])
                       ELSE UNCHANGED <<f_to_delete, f_log>>
    /\ IF f_idx < Len(files_c)
       THEN f_idx' = f_idx + 1 /\ pcf' = pcf
       ELSE f_idx' = 1 /\ pcf' = IF f_to_delete' # <<>> THEN "delete" ELSE "summary"
    /\ UNCHANGED <<varsFolders, varsCheck, varsUnpack>>
    /\ UNCHANGED <<prog, fsys, fsys0, sub_first, files_a, files_c,
                   deleted_count, b_files, d_files, removed_duplicates,
                   removed_matches, matched, locked>>

\* safe_delete_file on the next path of to_delete, counted when it returns
\* True.  The removal is not tried when the path does not exist, raises
\* (caught and written to the report) when the system refuses it - the file
\* then counts among the locked ones - and succeeds otherwise.
DeleteFileNext ==
    /\ prog = "regular" /\ pcf = "delete"
    /\ f_idx <= Len(f_to_delete)
    /\ LET path == f_to_delete[f_idx]
       IN IF path \notin DOMAIN fsys
          THEN UNCHANGED <<fsys, matched, deleted_count, f_log, locked>>
          ELSE \/ /\ Cardinality(locked) < MaxFail
                  /\ locked' = locked \cup {path}
                  /\ f_log' = Append(f_log, [line |-> "delete_failed", path |-> path])
                  /\ UNCHANGED <<fsys, matched, deleted_count>>
               \/ /\ locked' = locked
                  /\ fsys' = FileRemoved(fsys, path)
                  /\ f_log' = Append(f_log, [line |-> "deleted", path |-> path])
                  /\ matched' = matched \cup
                         {[removed |-> path,
                           reference |-> PlannedReference(f_log, path),
                           rule |-> "same as A"]}
                  /\ deleted_count' = deleted_count + 1
    /\ IF f_idx < Len(f_to_delete)
       THEN f_idx' = f_idx + 1 /\ pcf' = pcf
       ELSE f_idx' = 1 /\ pcf' = "summary"
    /\ UNCHANGED <<varsFolders, varsCheck, varsUnpack>>
    /\ UNCHANGED <<prog, fsys0, unreadable, sub_first, files_a, files_c,
                   f_to_delete, b_files, d_files, removed_duplicates,
                   removed_matches>>

\* the total is written, the report closed, and True returned
FinishRegular ==
    /\ prog = "regular" /\ pcf = "summary"
    /\ f_log' = Append(f_log, [line |-> "total", count |-> deleted_count])
    /\ pcf' = "done"
    /\ UNCHANGED <<varsFolders, varsCheck, varsUnpack>>
    /\ UNCHANGED <<prog, fsys, fsys0, unreadable, sub_first, files_a, files_c,
                   f_to_delete, f_idx, deleted_count, b_files, d_files,
                   removed_duplicates, removed_matches, matched, locked>>

RECURSIVE scandir(_, _, _, _)
\* the plain files of one folder in the order os.scandir returns them (by name)
scandir(d, root, dir, n) ==
    IF n > NumNames THEN <<>>
    ELSE (IF FPath(root, dir, n) \in DOMAIN d THEN <<FPath(root, dir, n)>> ELSE <<>>)
         \o scandir(d, root, dir, n + 1)

\* get_file_info: (file name, size)
get_file_info(d, file_path) == <<file_path.name, getsize(d, file_path)>>

RECURSIVE file_dict_extend(_, _, _, _)
\* file_dict[file_info].append(file_path) for the paths from position i on;
\* the dict is the sequence of its entries in insertion order
file_dict_extend(d, paths, i, file_dict) ==
    IF i > Len(paths) THEN file_dict
    ELSE LET file_info == get_file_info(d, paths[i])
             hit == {j \in 1..Len(file_dict) : file_dict[j].key = file_info}
         IN file_dict_extend(d, paths, i + 1,
                IF hit = {}
                THEN Append(file_dict, [key |-> file_info, paths |-> <<paths[i]>>])
                ELSE [file_dict EXCEPT ![CHOOSE j \in hit : TRUE].paths =
                                           Append(@, paths[i])])

\* scan_files_efficiently: every file below the directory, grouped by
\* (name, size); the subfolder is entered when os.scandir returns it, before
\* or after the files of the directory itself
scan_files_efficiently(d, root, subfirst) ==
    LET own == scandir(d, root, "", 1)
        sub == scandir(d, root, "s", 1)
    IN file_dict_extend(d, IF subfirst THEN sub \o own ELSE own \o sub, 1, <<>>)

\* file_info in b_files
InDict(file_dict, file_info) ==
    \E j \in 1..Len(file_dict) : file_dict[j].key = file_info

\* b_files[file_info][0]
FirstPathOf(file_dict, file_info) ==
    LET j == CHOOSE j2 \in 1..Len(file_dict) : file_dict[j2].key = file_info
    IN file_dict[j].paths[1]

\* the truth value Python gives the result of a call
Truthy(result) == result \notin {"None", "False"}

\* mutant: the call reports whether the file was removed
safe_path_operation_reporting(d, lk, path) ==
    IF path \notin DOMAIN d \/ path \in lk
    THEN [fsys |-> d, result |-> "None", logged |-> TRUE]
    ELSE [fsys |-> FileRemoved(d, path), result |-> "True", logged |-> FALSE]

\* safe_path_operation(os.remove, path): os.remove raises when the file does
\* not exist or the system refuses; the exception is logged and None returned.
\* Otherwise the file is removed and the result of os.remove, None, returned.
safe_path_operation(d, lk, path) ==
    IF path \notin DOMAIN d \/ path \in lk
    THEN [fsys |-> d, result |-> "None", logged |-> TRUE]
    ELSE [fsys |-> FileRemoved(d, path), result |-> "None", logged |-> FALSE]

RECURSIVE remove_each(_, _, _, _, _, _)
\* "for file_path in paths: if safe_path_operation(os.remove, file_path): ..."
\* from position i on.  st carries the disk, the log, the counter of the loop
\* and the removals made; reference is the file named in the log line and
\* rule the reason of the loop.
remove_each(st, lk, paths, i, reference, rule) ==
    IF i > Len(paths) THEN st
    ELSE LET op == safe_path_operation(st.fsys, lk, paths[i])
             gone == paths[i] \in DOMAIN st.fsys /\ paths[i] \notin DOMAIN op.fsys
             log1 == IF op.logged
                     THEN Append(st.log, [line |-> "error", path |-> paths[i]])
                     ELSE st.log
             log2 == IF Truthy(op.result)
                     THEN Append(log1, [line |-> "removed", path |-> paths[i],
                                        reference |-> reference, rule |-> rule])
                     ELSE log1
         IN remove_each([fsys |-> op.fsys,
                         log |-> log2,
                         count |-> IF Truthy(op.result) THEN st.count + 1 ELSE st.count,
                         matched |-> IF gone
                                     THEN st.matched \cup
                                            {[removed |-> paths[i],
                                              reference |-> reference, rule |-> rule]}
                                     ELSE st.matched],
                        lk, paths, i + 1, reference, rule)

InitPlagiarism ==
    /\ prog = "plagiarism"
    /\ fsys \in DisksOver(PlagiarismPaths)
    /\ fsys0 = fsys
    /\ unreadable = {}
    /\ sub_first \in BOOLEAN
    /\ pcf = "scan"
    /\ files_a = <<>>
    /\ files_c = <<>>
    /\ f_to_delete = <<>>
    /\ f_idx = 1
    /\ deleted_count = 0
    /\ b_files = <<>>
    /\ d_files = <<>>
    /\ removed_duplicates = 0
    /\ removed_matches = 0
    /\ matched = {}
    /\ locked \in {l \in SUBSET {q \in DOMAIN fsys : q.root = "D"} :
                     Cardinality(l) <= MaxFail}
    /\ f_log = <<>>

\* b_files = scan_files_efficiently(b_dir); d_files = scan_files_efficiently(d_dir)
ScanPlagiarism ==
    /\ prog = "plagiarism" /\ pcf = "scan"
    /\ b_files' = scan_files_efficiently(fsys, "B", sub_first)
    /\ d_files' = scan_files_efficiently(fsys, "D", sub_first)
    /\ f_idx' = 1
    /\ pcf' = IF d_files' # <<>> THEN "process" ELSE "summary"
    /\ UNCHANGED <<varsFolders, varsCheck, varsUnpack>>
    /\ UNCHANGED <<prog, fsys, fsys0, unreadable, sub_first, files_a, files_c,
                   f_to_delete, deleted_count, removed_duplicates,
                   removed_matches, matched, locked, f_log>>

\* one turn of the loop over d_files.items(): the copies after the first are
\* removed when there are several, then every path of the entry is removed
\* when B has a file of that name and size
ProcessEntry ==
    /\ prog = "plagiarism" /\ pcf = "process"
    /\ f_idx <= Len(d_files)
    /\ LET file_info == d_files[f_idx].key
           paths == d_files[f_idx].paths
           st0 == [fsys |-> fsys, log |-> f_log, count |-> removed_duplicates,
                   matched |-> matched]
           st1 == IF Len(paths) > 1
                  THEN remove_each([st0 EXCEPT !.log =
                                        Append(@, [line |-> "duplicates",
                                                   key |-> file_info,
                                                   copies |-> Len(paths)])],
                                   locked, Tail(paths), 1, paths[1], "duplicate in D")
                  ELSE st0
           st2 == IF InDict(b_files, file_info)
                  THEN remove_each([fsys |-> st1.fsys,
                                    log |-> Append(st1.log, [line |-> "match",
                                                             key |-> file_info]),
                                    count |-> removed_matches,
                                    matched |-> st1.matched],
                                   locked, paths, 1,
                                   FirstPathOf(b_files, file_info), "same as B")
                  ELSE [st1 EXCEPT !.count = removed_matches]
       IN /\ fsys' = st2.fsys
          /\ f_log' = st2.log
          /\ matched' = st2.matched
          /\ removed_duplicates' = st1.count
          /\ removed_matches' = st2.count
    /\ IF f_idx < Len(d_files)
       THEN f_idx' = f_idx + 1 /\ pcf' = pcf
       ELSE f_idx' = 1 /\ pcf' = "summary"
    /\ UNCHANGED <<varsFolders, varsCheck, varsUnpack>>
    /\ UNCHANGED <<prog, fsys0, unreadable, sub_first, files_a, files_c,
                   f_to_delete, deleted_count, b_files, d_files, locked>>

\* the totals are logged and (removed_duplicates, removed_matches) returned
FinishPlagiarism ==
    /\ prog = "plagiarism" /\ pcf = "summary"
    /\ f_log' = Append(f_log, [line |-> "total",
                               count |-> removed_duplicates + removed_matches])
    /\ pcf' = "done"
    /\ UNCHANGED <<varsFolders, varsCheck, varsUnpack>>
    /\ UNCHANGED <<prog, fsys, fsys0, unreadable, sub_first, files_a, files_c,
                   f_to_delete, f_idx, deleted_count, b_files, d_files,
                   removed_duplicates, removed_matches, matched, locked>>

(***************************************************************************)
(* check.py.  An archive of E is given by whether `7z l` succeeds on it,   *)
(* its plain members (name and size) and its archive member "n.zip", if    *)
(* any: a small archive, or a copy of the archive itself.  An entry of a   *)
(* content list is <<path, size>>, the path being the sequence of member   *)
(* names that the code joins with "/".                                     *)
(***************************************************************************)
Archive(listing, files, nested) ==
    [listing |-> listing, files |-> files, nested |-> nested]

K_bad == Archive(FALSE, {}, "none")
K_empty == Archive(TRUE, {}, "none")
K_x == Archive(TRUE, {<<"x", 1>>}, "none")
K_xy == Archive(TRUE, {<<"x", 1>>, <<"y", 1>>}, "none")
K_nest == Archive(TRUE, {<<"x", 1>>}, "inner")
K_self == Archive(TRUE, {<<"x", 1>>}, "self")

\* the archive stored as member n.zip of K_nest
K_inner == Archive(TRUE, {<<"y", 1>>}, "none")

Archives == {K_bad, K_empty, K_x, K_xy, K_nest, K_self}

\* the archive that the extraction of the member n.zip yields
nested_archive(arch) == IF arch.nested = "self" THEN arch ELSE K_inner

RECURSIVE get_archive_contents(_, _)
\* get_archive_contents at the given depth of nested calls: no entry when
\* run_7z_command does not return 0 (the listing fails, or the interpreter
\* cannot call any deeper); otherwise the plain members, and the entries of
\* the archive member prefixed with its name
get_archive_contents(arch, depth) ==
    IF ~arch.listing \/ depth > RecursionLimit THEN {}
    ELSE {<<<<f[1]>>, f[2]>> : f \in arch.files}
         \cup (IF arch.nested = "none" THEN {}
               ELSE {<<<<"n.zip">> \o e[1], e[2]>> :
                        e \in get_archive_contents(nested_archive(arch), depth + 1)})

\* archive_files: the archives of E in the order of E_DIR.iterdir()
archive_files(listing, e) == SelectSeq(listing, LAMBDA a : a \in DOMAIN e)

\* archive_contents[archive] for every archive of E
archive_contents(e) == [a \in DOMAIN e |-> get_archive_contents(e[a], 1)]

RECURSIVE duplicates(_, _, _, _)
\* compare_archives: the dict duplicates, as the sequence of its items - for
\* every archive not yet processed, the later-listed and not yet processed
\* archives with the same content list
duplicates(order, contents, i, processed) ==
    IF i > Len(order) THEN <<>>
    ELSE IF order[i] \in processed
    THEN duplicates(order, contents, i + 1, processed)
    ELSE LET archive1 == order[i]
             list == SelectSeq(order, LAMBDA archive2 :
                         /\ archive2 # archive1
                         /\ archive2 \notin processed
                         /\ contents[archive1] = contents[archive2])
         IN <<[keep |-> archive1, list |-> list]>>
                \o duplicates(order, contents, i + 1, processed \cup Range(list))

add_relation_swapped(rel, keep, item) ==
    Append(rel, [keep |-> item, list |-> <<keep>>])

\* containment_relations[keep].append(item)
add_relation(rel, keep, item) ==
    IF \E j \in 1..Len(rel) : rel[j].keep = keep
    THEN [j \in 1..Len(rel) |->
             IF rel[j].keep = keep
             THEN [keep |-> keep, list |-> Append(rel[j].list, item)]
             ELSE rel[j]]
    ELSE Append(rel, [keep |-> keep, list |-> <<item>>])

RECURSIVE containment_inner(_, _, _, _, _)
\* find_archive_containment: the loop over archive2 for one archive1
containment_inner(order, sets, archive1, j, st) ==
    IF j > Len(order) THEN st
    ELSE LET archive2 == order[j]
         IN IF archive1 = archive2 \/ archive2 \in st.contained
            THEN containment_inner(order, sets, archive1, j + 1, st)
            ELSE IF sets[archive1] \subseteq sets[archive2]
            THEN containment_inner(order, sets, archive1, j + 1,
                     [contained |-> st.contained \cup {archive1},
                      rel |-> add_relation(st.rel, archive2, archive1),
                      log |-> Append(st.log, [line |-> "contained", path |-> archive1,
                                              keeper |-> archive2])])
            ELSE IF sets[archive2] \subseteq sets[archive1]
            THEN containment_inner(order, sets, archive1, j + 1,
                     [contained |-> st.contained \cup {archive2},
                      rel |-> add_relation(st.rel, archive1, archive2),
                      log |-> Append(st.log, [line |-> "contained", path |-> archive2,
                                              keeper |-> archive1])])
            ELSE containment_inner(order, sets, archive1, j + 1, st)

RECURSIVE containment_outer(_, _, _, _)
\* find_archive_containment: the loop over archive1
containment_outer(order, sets, i, st) ==
    IF i > Len(order) THEN st
    ELSE IF order[i] \in st.contained
    THEN containment_outer(order, sets, i + 1, st)
    ELSE containment_outer(order, sets, i + 1,
             containment_inner(order, sets, order[i], 1, st))

RECURSIVE planned_moves(_, _, _)
\* the moves in the order the two loops over the dict make them; the first
\* move of a keeper is preceded by the line that names the keeper
planned_moves(rel, i, j) ==
    IF i > Len(rel) THEN <<>>
    ELSE IF j > Len(rel[i].list) THEN planned_moves(rel, i + 1, 1)
    ELSE <<[keep |-> rel[i].keep, item |-> rel[i].list[j], first |-> j = 1]>>
             \o planned_moves(rel, i, j + 1)

RECURSIVE move_all(_, _, _, _)
\* shutil.move of each planned item to F: the item is moved, or the move
\* raises - because the system refuses it, or because the item is no longer
\* in E - and the error is logged
move_all(st, moves, i, refused) ==
    IF i > Len(moves) THEN st
    ELSE LET m == moves[i]
             log1 == IF m.first THEN Append(st.log, [line |-> "keep", path |-> m.keep])
                     ELSE st.log
         IN IF i \in refused \/ m.item \notin DOMAIN st.e
            THEN move_all([e |-> st.e, f |-> st.f,
                           log |-> Append(log1, [line |-> "move_failed", path |-> m.item])],
                          moves, i + 1, refused)
            ELSE move_all([e |-> [a \in DOMAIN st.e \ {m.item} |-> st.e[a]],
                           f |-> (m.item :> st.e[m.item]) @@ st.f,
                           log |-> Append(log1, [line |-> "moved", path |-> m.item,
                                                 keeper |-> m.keep])],
                          moves, i + 1, refused)

\* the sets of moves the system may refuse
Refusable(moves) == {r \in SUBSET (1..Len(moves)) : Cardinality(r) <= MaxFail}

IdleCheck ==
    /\ pck = "idle"
    /\ e_dir = <<>>
    /\ e_dir0 = <<>>
    /\ f_dir = <<>>
    /\ e_listing = <<>>
    /\ ck_log = <<>>
    /\ e_sub = <<>>
    /\ e_sub0 = <<>>
    /\ f_sub = <<>>

\* the trees a directory of E is drawn from
DirTrees == {T_dir, T_a, T_ab, T_abc4, T_ab_denied}

\* the name of the n-th directory of E; the archives are named 1..NumArch
DirName(n) == NumArch + n

DirNames == {DirName(n) : n \in 1..NumDirs}

\* main: 7-Zip was found, E exists and F is empty.  The two functions for
\* archives touch only the files of E and the two functions for directories
\* only its directories, so a run starts with archives or with directories.
InitCheck ==
    /\ pck = "compare_archives"
    /\ \/ /\ e_dir \in UNION {[present -> Archives] : present \in SUBSET (1..NumArch)}
          /\ e_sub = <<>>
          /\ e_listing \in {[i \in 1..NumArch |-> i],
                            [i \in 1..NumArch |-> NumArch + 1 - i]}
       \/ /\ e_dir = <<>>
          /\ e_sub \in UNION {[present -> DirTrees] : present \in SUBSET DirNames}
          /\ e_sub # <<>>
          /\ e_listing \in {[i \in 1..NumDirs |-> DirName(i)],
                            [i \in 1..NumDirs |-> DirName(NumDirs + 1 - i)]}
    /\ e_dir0 = e_dir
    /\ e_sub0 = e_sub
    /\ f_dir = <<>>
    /\ f_sub = <<>>
    /\ ck_log = <<>>

\* compare_archives
CompareArchives ==
    /\ pck = "compare_archives"
    /\ LET order == archive_files(e_listing, e_dir)
           moves == planned_moves(duplicates(order, archive_contents(e_dir), 1, {}),
                                  1, 1)
       IN \E refused \in Refusable(moves) :
             LET st == move_all([e |-> e_dir, f |-> f_dir, log |-> ck_log],
                                moves, 1, refused)
             IN /\ e_dir' = st.e
                /\ f_dir' = st.f
                /\ ck_log' = st.log
    /\ pck' = "find_archive_containment"
    /\ UNCHANGED <<e_dir0, e_listing, e_sub, e_sub0, f_sub>>
    /\ UNCHANGED <<varsFolders, varsFiles, varsUnpack>>

\* find_archive_containment
FindArchiveContainment ==
    /\ pck = "find_archive_containment"
    /\ LET order == archive_files(e_listing, e_dir)
           found == containment_outer(order, archive_contents(e_dir), 1,
                        [contained |-> {}, rel |-> <<>>, log |-> ck_log])
           moves == planned_moves(found.rel, 1, 1)
       IN \E refused \in Refusable(moves) :
             LET st == move_all([e |-> e_dir, f |-> f_dir, log |-> found.log],
                                moves, 1, refused)
             IN /\ e_dir' = st.e
                /\ f_dir' = st.f
                /\ ck_log' = st.log
    /\ pck' = "compare_directories"
    /\ UNCHANGED <<e_dir0, e_listing, e_sub, e_sub0, f_sub>>
    /\ UNCHANGED <<varsFolders, varsFiles, varsUnpack>>

\* get_directory_contents: (relative path, size) of every file below the
\* directory; a file whose size cannot be read is left out
get_directory_contents(tree) ==
    {<<f, tree.files[f]>> : f \in DOMAIN tree.files \ tree.denied}

\* directories: the directories of E in the order of E_DIR.iterdir()
directories(listing, e) == SelectSeq(listing, LAMBDA d : d \in DOMAIN e)

\* dir_contents[directory] for every directory of E
dir_contents(e) == [d \in DOMAIN e |-> get_directory_contents(e[d])]

\* the lines the two functions for directories log: the same lines as for
\* archives, about a directory
DirLines(log) ==
    [i \in 1..Len(log) |->
        [log[i] EXCEPT !.line = CASE @ = "keep" -> "keep_dir"
                                  [] @ = "moved" -> "moved_dir"
                                  [] @ = "move_failed" -> "move_dir_failed"
                                  [] @ = "contained" -> "contained_dir"]]

\* compare_directories
CompareDirectories ==
    /\ pck = "compare_directories"
    /\ LET order == directories(e_listing, e_sub)
           moves == planned_moves(duplicates(order, dir_contents(e_sub), 1, {}),
                                  1, 1)
       IN \E refused \in Refusable(moves) :
             LET st == move_all([e |-> e_sub, f |-> f_sub, log |-> <<>>],
                                moves, 1, refused)
             IN /\ e_sub' = st.e
                /\ f_sub' = st.f
                /\ ck_log' = ck_log \o DirLines(st.log)
    /\ pck' = "find_directory_containment"
    /\ UNCHANGED <<e_dir, e_dir0, f_dir, e_listing, e_sub0>>
    /\ UNCHANGED <<varsFolders, varsFiles, varsUnpack>>

\* find_directory_containment
FindDirectoryContainment ==
    /\ pck = "find_directory_containment"
    /\ LET order == directories(e_listing, e_sub)
           found == containment_outer(order, dir_contents(e_sub), 1,
                        [contained |-> {}, rel |-> <<>>, log |-> <<>>])
           moves == planned_moves(found.rel, 1, 1)
       IN \E refused \in Refusable(moves) :
             LET st == move_all([e |-> e_sub, f |-> f_sub, log |-> found.log],
                                moves, 1, refused)
             IN /\ e_sub' = st.e
                /\ f_sub' = st.f
                /\ ck_log' = ck_log \o DirLines(st.log)
    /\ pck' = "done"
    /\ UNCHANGED <<e_dir, e_dir0, f_dir, e_listing, e_sub0>>
    /\ UNCHANGED <<varsFolders, varsFiles, varsUnpack>>

NextCheck ==
    \/ CompareArchives
    \/ FindArchiveContainment
    \/ CompareDirectories
    \/ FindDirectoryContainment

(***************************************************************************)
(* unpack.py.  A path below D is the sequence of the names that lead to    *)
(* it.  A node is a directory, which can be listed or not, or a file: a    *)
(* plain file or an archive of one of the kinds                            *)
(*   "flat"  holds the plain file f.txt,                                   *)
(*   "nest"  holds the archive y.zip of kind "flat",                       *)
(*   "loop"  holds the archive x.zip of kind "loop" (a copy of itself),    *)
(*   "rar"   holds f.txt; 7z cannot extract it, WinRAR can,                *)
(*   "bad"   cannot be extracted by either tool.                           *)
(***************************************************************************)
max_iterations == 100

compressed_extensions == {".zip", ".rar", ".7z", ".tar", ".gz", ".bz2"}

\* Path.suffix and Path.stem of the names of the model
Suffix(name) ==
    CASE name \in {"x.zip", "y.zip", "a:b.zip"} -> ".zip"
      [] name = "f.txt" -> ".txt"
      [] OTHER -> ""

Stem(name) ==
    CASE name = "x.zip" -> "x"
      [] name = "y.zip" -> "y"
      [] name = "a:b.zip" -> "a:b"
      [] name = "f.txt" -> "f"
      [] OTHER -> name

Dir(listable) == [type |-> "dir", listable |-> listable]

File(content, busy) == [type |-> "file", kind |-> content, locked |-> busy]

\* the members of an archive: name -> kind of the member
Members(content) ==
    CASE content = "nest" -> ("y.zip" :> "flat")
      [] content = "loop" -> ("x.zip" :> "loop")
      [] OTHER -> ("f.txt" :> "plain")

Parent(path) == SubSeq(path, 1, Len(path) - 1)

Name(path) == path[Len(path)]

is_compressed_file(file_path) == Suffix(Name(file_path)) \in compressed_extensions

\* safe_path_name: every character of <>:"/\|?* becomes _
safe_path_name(name) == IF name = "a:b" THEN "a_b" ELSE name

\* extract_with_7zip / extract_with_winrar: whether the tool returns 0
extract_with_7zip(content) == content \in {"flat", "nest", "loop"}

extract_with_winrar(content) == content \in {"flat", "nest", "loop", "rar"}

\* the disk after a tool has written the members below output_dir,
\* overwriting what is there (-aoa, -y)
Extracted(disk, output_dir, content) ==
    LET written == {Append(output_dir, n) : n \in DOMAIN Members(content)}
    IN [q \in DOMAIN disk \cup written |->
           IF q \in written THEN File(Members(content)[Name(q)], FALSE)
           ELSE disk[q]]

\* extract_archive: output_dir.mkdir(parents=True, exist_ok=True) raises
\* FileExistsError when output_dir is a file; then 7z, then WinRAR
extract_archive(disk, archive_path, output_dir) ==
    IF output_dir \in DOMAIN disk /\ disk[output_dir].type = "file"
    THEN [result |-> "raised", disk |-> disk]
    ELSE LET made == IF output_dir \in DOMAIN disk THEN disk
                     ELSE (output_dir :> Dir(TRUE)) @@ disk
             content == IF archive_path \in DOMAIN disk
                        THEN disk[archive_path].kind ELSE "bad"
         IN IF extract_with_7zip(content) \/ extract_with_winrar(content)
            THEN [result |-> "ok", disk |-> Extracted(made, output_dir, content)]
            ELSE [result |-> "failed", disk |-> made]

\* the names in one of the orders of iterdir()
UNames == <<"a:b.zip", "a_b", "f.txt", "s", "x", "x.zip", "y", "y.zip">>

\* whether iterdir() yields, or leads to, the path p before the path q:
\* decided by the first name in which the two paths differ
Before(listing, p, q) ==
    LET k == CHOOSE i \in 1..Len(p) :
                 /\ p[i] # q[i]
                 /\ \A j \in 1..(i - 1) : p[j] = q[j]
        rank(n) == CHOOSE i \in 1..Len(listing) : listing[i] = n
    IN rank(p[k]) < rank(q[k])

\* find_all_compressed_files(d_dir): the archives that the recursion reaches
\* - every directory on the way can be listed, a directory that cannot be
\* listed yields nothing - in the order in which the recursion appends them
find_all_compressed_files(disk, listing) ==
    LET found == {p \in DOMAIN disk :
                     /\ disk[p].type = "file"
                     /\ is_compressed_file(p)
                     /\ \A k \in 1..(Len(p) - 1) : disk[SubSeq(p, 1, k)].listable}
    IN [i \in 1..Cardinality(found) |->
           CHOOSE p \in found :
              Cardinality({q \in found \ {p} : Before(listing, q, p)}) = i - 1]

IdleUnpack ==
    /\ pcu = "idle"
    /\ d_disk = <<>>
    /\ d_disk0 = <<>>
    /\ d_listing = <<>>
    /\ iteration = 0
    /\ compressed_files = <<>>
    /\ u_idx = 0
    /\ processed_count = 0
    /\ u_log = <<>>

\* what D may hold at the call of process_d_folder: an archive x.zip, an
\* archive a:b.zip, a file or a directory named x, a directory s that
\* cannot be listed
Optional(path, nodes) == {<<>>} \cup {(path :> n) : n \in nodes}

UnpackDisks ==
    {x @@ ab @@ xd @@ sd :
        x \in Optional(<<"x.zip">>,
                  {File(k, FALSE) : k \in {"flat", "nest", "loop", "rar", "bad"}}
                      \cup {File("flat", TRUE)}),
        ab \in Optional(<<"a:b.zip">>, {File("flat", FALSE), File("bad", FALSE)}),
        xd \in {<<>>,
                (<<"x">> :> File("plain", FALSE)),
                (<<"x">> :> Dir(TRUE)) @@ (<<"x", "y.zip">> :> File("bad", FALSE))},
        sd \in {<<>>,
                (<<"s">> :> Dir(FALSE)) @@ (<<"s", "y.zip">> :> File("flat", FALSE))}}

Reversed(seq) == [i \in 1..Len(seq) |-> seq[Len(seq) + 1 - i]]

\* main: C and D exist, process_c_to_d is over, process_d_folder is called
InitUnpack ==
    /\ pcu = "scan"
    /\ d_disk \in UnpackDisks
    /\ d_disk0 = d_disk
    /\ d_listing \in {UNames, Reversed(UNames)}
    /\ iteration = 0
    /\ compressed_files = <<>>
    /\ u_idx = 0
    /\ processed_count = 0
    /\ u_log = <<>>

\* the lines after the loop: the warning when the loop variable is
\* max_iterations - 1, then the total
Closing(lines, count) ==
    (IF iteration = max_iterations - 1
     THEN Append(lines, [line |-> "max_reached"]) ELSE lines)
        \o <<[line |-> "total", count |-> count]>>

\* process_d_folder: the scan at the head of one round of the loop
ScanRound ==
    /\ pcu = "scan"
    /\ LET found == find_all_compressed_files(d_disk, d_listing)
           round == [line |-> "round", round |-> iteration + 1]
       IN IF found = <<>>
          THEN /\ u_log' = Closing(u_log \o <<round, [line |-> "none_found",
                                                     round |-> iteration + 1]>>,
                                   processed_count)
               /\ pcu' = "done"
               /\ UNCHANGED <<compressed_files, u_idx>>
          ELSE /\ u_log' = u_log \o <<round, [line |-> "found",
                                             round |-> iteration + 1,
                                             count |-> Len(found)]>>
               /\ compressed_files' = found
               /\ u_idx' = 1
               /\ pcu' = "extract"
    /\ UNCHANGED <<d_disk, d_disk0, d_listing, iteration, processed_count>>
    /\ UNCHANGED <<varsFolders, varsFiles, varsCheck>>

ExtractNext_unlink_always ==
    /\ pcu = "extract"
    /\ LET archive_path == compressed_files[u_idx]
           folder_name == safe_path_name(Stem(Name(archive_path)))
           output_dir == Append(Parent(archive_path), folder_name)
           ex == extract_archive(d_disk, archive_path, output_dir)
           unlinked == ~ex.disk[archive_path].locked
           count == IF unlinked THEN processed_count + 1 ELSE processed_count
           last == u_idx = Len(compressed_files)
           lines == CASE ex.result = "failed" ->
                           <<[line |-> "skipped", path |-> archive_path,
                              round |-> iteration + 1]>>
                      [] ex.result = "ok" ->
                           <<[line |-> "extract_ok", path |-> archive_path,
                              round |-> iteration + 1],
                             [line |-> IF unlinked THEN "deleted" ELSE "delete_failed",
                              path |-> archive_path, round |-> iteration + 1]>>
                      [] OTHER -> <<>>
           ended == Append(u_log \o lines, [line |-> "round_done",
                                            round |-> iteration + 1])
       IN IF ex.result = "raised"
          THEN /\ pcu' = "error"
               /\ UNCHANGED <<d_disk, iteration, u_idx, processed_count, u_log>>
          ELSE /\ d_disk' = IF unlinked
                            THEN [q \in DOMAIN ex.disk \ {archive_path} |-> ex.disk[q]]
                            ELSE ex.disk
               /\ processed_count' = count
               /\ IF ~last
                  THEN /\ u_idx' = u_idx + 1
                       /\ u_log' = u_log \o lines
                       /\ UNCHANGED <<pcu, iteration>>
                  ELSE IF iteration + 1 < max_iterations
                  THEN /\ iteration' = iteration + 1
                       /\ pcu' = "scan"
                       /\ u_log' = ended
                       /\ UNCHANGED u_idx
                  ELSE /\ pcu' = "done"
                       /\ u_log' = Closing(ended, count)
                       /\ UNCHANGED <<iteration, u_idx>>
    /\ UNCHANGED <<d_disk0, d_listing, compressed_files>>
    /\ UNCHANGED <<varsFolders, varsFiles, varsCheck>>

\* process_d_folder: one archive of the round - extract_archive, then
\* unlink when it returned True; after the last archive the round ends
ExtractNext ==
    /\ pcu = "extract"
    /\ LET archive_path == compressed_files[u_idx]
           folder_name == safe_path_name(Stem(Name(archive_path)))
           output_dir == Append(Parent(archive_path), folder_name)
           ex == extract_archive(d_disk, archive_path, output_dir)
           unlinked == ex.result = "ok" /\ ~ex.disk[archive_path].locked
           count == IF unlinked THEN processed_count + 1 ELSE processed_count
           last == u_idx = Len(compressed_files)
           lines == CASE ex.result = "failed" ->
                           <<[line |-> "skipped", path |-> archive_path,
                              round |-> iteration + 1]>>
                      [] ex.result = "ok" ->
                           <<[line |-> "extract_ok", path |-> archive_path,
                              round |-> iteration + 1],
                             [line |-> IF unlinked THEN "deleted" ELSE "delete_failed",
                              path |-> archive_path, round |-> iteration + 1]>>
                      [] OTHER -> <<>>
           ended == Append(u_log \o lines, [line |-> "round_done",
                                            round |-> iteration + 1])
       IN IF ex.result = "raised"
          THEN /\ pcu' = "error"
               /\ UNCHANGED <<d_disk, iteration, u_idx, processed_count, u_log>>
          ELSE /\ d_disk' = IF unlinked
                            THEN [q \in DOMAIN ex.disk \ {archive_path} |-> ex.disk[q]]
                            ELSE ex.disk
               /\ processed_count' = count
               /\ IF ~last
                  THEN /\ u_idx' = u_idx + 1
                       /\ u_log' = u_log \o lines
                       /\ UNCHANGED <<pcu, iteration>>
                  ELSE IF iteration + 1 < max_iterations
                  THEN /\ iteration' = iteration + 1
                       /\ pcu' = "scan"
                       /\ u_log' = ended
                       /\ UNCHANGED u_idx
                  ELSE /\ pcu' = "done"
                       /\ u_log' = Closing(ended, count)
                       /\ UNCHANGED <<iteration, u_idx>>
    /\ UNCHANGED <<d_disk0, d_listing, compressed_files>>
    /\ UNCHANGED <<varsFolders, varsFiles, varsCheck>>

NextUnpack ==
    \/ ScanRound
    \/ ExtractNext

IdleFolders ==
    /\ kind = "none"
    /\ fs = <<>>
    /\ fs0 = <<>>
    /\ listdir_a = <<>>
    /\ listdir_c = <<>>
    /\ pc = "idle"
    /\ folders_a = <<>>
    /\ folders_c = <<>>
    /\ content_groups = <<>>
    /\ to_delete = <<>>
    /\ processed_pairs = {}
    /\ scanned_pairs = {}
    /\ fails = 0
    /\ log_file = <<>>
    /\ seven_zip = "None"
    /\ logger_errors = <<>>

InitFiles == IdleFolders /\ IdleCheck /\ IdleUnpack /\ (InitRegular \/ InitPlagiarism)

NextRegular ==
    \/ ScanRegular
    \/ CompareNext
    \/ DeleteFileNext
    \/ FinishRegular

NextPlagiarism ==
    \/ ScanPlagiarism
    \/ ProcessEntry
    \/ FinishPlagiarism

NextFiles == NextRegular \/ NextPlagiarism

\* another program removes an item that waits on the deletion list; this is
\* what the os.path.exists test of safe_delete_folder / safe_delete_file is for
ExternalRemoveItem ==
    /\ pc \in {"delete_dup", "delete_identical", "delete_contained"}
    /\ \E path \in Range(to_delete) :
          /\ exists(fs, path)
          /\ fs' = Removed(fs, path)
    /\ UNCHANGED <<seven_zip, logger_errors, varsFiles, varsCheck, varsUnpack>>
    /\ UNCHANGED <<kind, fs0, listdir_a, listdir_c, pc, folders_a, folders_c,
                   content_groups, to_delete, processed_pairs, scanned_pairs,
                   fails, log_file>>

\* another program removes a plain file that waits on to_delete
ExternalRemoveFile ==
    /\ prog = "regular" /\ pcf = "delete"
    /\ \E i \in f_idx..Len(f_to_delete) :
          /\ f_to_delete[i] \in DOMAIN fsys
          /\ fsys' = FileRemoved(fsys, f_to_delete[i])
    /\ UNCHANGED <<varsFolders, varsCheck, varsUnpack>>
    /\ UNCHANGED <<prog, fsys0, unreadable, sub_first, pcf, files_a, files_c,
                   f_to_delete, f_idx, deleted_count, b_files, d_files,
                   removed_duplicates, removed_matches, matched, locked, f_log>>

\* the disks of the self-deduplication scenario: SameCount candidates hold
\* one tree, one more candidate holds another tree, every reference holds
\* the tree of files a, b, c
DupPaths == {Path(FOLDER_C, n) : n \in 1..(SameCount + 1)}

DupDisks ==
    {ta @@ [p \in DupPaths |-> IF p = other THEN y ELSE x] :
        ta \in [RefPaths -> {T_abc4}],
        other \in DupPaths,
        x \in CandTrees,
        y \in CandTrees}

InitSelfDedupFolders ==
    InitRun({d \in DupDisks :
                \E x \in DupPaths : \A p \in DupPaths \ {x} : d[p] # d[x]},
            SameCount + 1)

\* the disks of the cross-reduction example: a reference holds
\* {a:10, b:20, c:30} or {a:10, b:20, c:4}
ExampleDisks ==
    {ta @@ tc : ta \in [RefPaths -> {T_abc30, T_abc4}],
                tc \in [CandPaths -> CandTrees]}

InitExampleFolders == InitRun(ExampleDisks, NumCand)

Init == InitFolders /\ IdleFiles /\ IdleCheck /\ IdleUnpack

Next == NextFolders

Spec == Init /\ [][Next]_vars

\* the runs of the self-deduplication scenario
InitSelfDedup == InitSelfDedupFolders /\ IdleFiles /\ IdleCheck /\ IdleUnpack

SpecSelfDedup == InitSelfDedup /\ [][Next]_vars

\* the runs of the cross-reduction example
InitExample == InitExampleFolders /\ IdleFiles /\ IdleCheck /\ IdleUnpack

SpecExample == InitExample /\ [][Next]_vars

\* the runs in which targets of a deletion list are removed from outside
\* before their turn: of process_folders / process_archives over the disks
\* of the example, and of process_regular_files
InitExternal ==
    \/ InitExampleFolders /\ IdleFiles /\ IdleCheck /\ IdleUnpack
    \/ IdleFolders /\ InitRegular /\ IdleCheck /\ IdleUnpack

NextExternal ==
    \/ NextFolders
    \/ ExternalRemoveItem
    \/ NextRegular
    \/ ExternalRemoveFile

SpecExternal == InitExternal /\ [][NextExternal]_vars

\* the runs of process_regular_files and of remove_duplicates_and_matches
SpecFiles == InitFiles /\ [][NextFiles]_vars

\* the runs of process_folders / process_archives over items that hold an
\* empty directory, an empty file of the same name, or an inaccessible file
ScanDisks ==
    {ta @@ tc : ta \in [RefPaths -> {T_file, T_abc4, T_a}],
                tc \in [CandPaths -> {T_dir, T_file, T_ab_denied}]}

InitScanFolders == InitRun(ScanDisks, NumCand)

InitScan == InitScanFolders /\ IdleFiles /\ IdleCheck /\ IdleUnpack

SpecScan == InitScan /\ [][Next]_vars

\* the runs of the four programs that delete: process_folders and
\* process_archives over the disks of the example, process_regular_files and
\* remove_duplicates_and_matches
InitRuns == InitExample \/ InitFiles

NextRuns == NextFolders \/ NextFiles

SpecRuns == InitRuns /\ [][NextRuns]_vars

\* the runs of process_d_folder
InitUnpackRun == IdleFolders /\ IdleFiles /\ IdleCheck /\ InitUnpack

SpecUnpack == InitUnpackRun /\ [][NextUnpack]_vars

\* the runs of check.py over the archives of E
InitCheckRun == IdleFolders /\ IdleFiles /\ IdleUnpack /\ InitCheck

SpecCheck == InitCheckRun /\ [][NextCheck]_vars

(***************************************************************************)
(* Notions the claims are stated in, defined apart from the code.          *)
(***************************************************************************)
\* the manifest the run builds for the item at path p of the starting disk
RECURSIVE ManifestsOver(_, _)
ManifestsOver(k, trees) ==
    IF trees = {} THEN <<>>
    ELSE LET t == CHOOSE x \in trees : TRUE
         IN (t :> ManifestData(IF k = "folder" THEN scan_folder_contents(t)
                               ELSE list_archive_contents(t)))
                @@ ManifestsOver(k, trees \ {t})

ManifestTable ==
    [folder |-> ManifestsOver("folder", AllTrees),
     archive |-> ManifestsOver("archive", AllTrees)]

manifest_of(p) == ManifestTable[kind][fs0[p]]

\* the manifests a run holds after its scan
RunManifests == {manifest_of(p) : p \in DOMAIN fs0}

\* the scan is over and nothing else has run: the manifests of the run are
\* those of the starting disk from here on
Scanned == pc = "group"

\* same entry set: the same relative paths, each with the same size
SameContent(m1, m2) == m1.contents = m2.contents

\* every entry of m1 occurs in m2 with the same size
SubContent(m1, m2) ==
    \A f \in DOMAIN m1.contents :
        f \in DOMAIN m2.contents /\ m2.contents[f] = m1.contents[f]

\* C2: identical (are_folders_identical / are_archives_identical) is reflexive,
\* symmetric and transitive over the manifests of a run.
C2_IdenticalEquivalence ==
    Scanned =>
        \A m1, m2, m3 \in RunManifests :
            /\ identical(kind, m1, m1)
            /\ identical(kind, m1, m2) = identical(kind, m2, m1)
            /\ (identical(kind, m1, m2) /\ identical(kind, m2, m3))
                   => identical(kind, m1, m3)

\* a run that holds two different items judged identical, and two that are not
C2_Witness ==
    /\ Scanned
    /\ \E p, q \in DOMAIN fs0 :
          p # q /\ identical(kind, manifest_of(p), manifest_of(q))
    /\ \E p, q \in DOMAIN fs0 : ~identical(kind, manifest_of(p), manifest_of(q))

\* C3: contains(A, B) implies file_count(A) < file_count(B) and
\* total_size(A) <= total_size(B), and contains(M, M) is false, for the
\* manifests of a run.
C3_ContainsStrict ==
    Scanned =>
        \A m1, m2 \in RunManifests :
            /\ contains(kind, m1, m2) =>
                   /\ m1.file_count < m2.file_count
                   /\ m1.total_size <= m2.total_size
            /\ ~contains(kind, m1, m1)
            /\ identical(kind, m1, m2) =>
                   ~contains(kind, m1, m2) /\ ~contains(kind, m2, m1)

\* a run that holds a manifest contained in another one
C3_Witness ==
    /\ Scanned
    /\ \E p, q \in DOMAIN fs0 : contains(kind, manifest_of(p), manifest_of(q))

(***************************************************************************)
(* What the report and the starting disk say about a run.                  *)
(***************************************************************************)
Lines == 1..Len(log_file)

\* the candidates and the references the scan put into folders_c, folders_a
ScannedItems(root) ==
    {p \in DOMAIN fs0 :
        /\ p.root = root
        /\ kind = "folder" => (DOMAIN fs0[p].files # {} \/ fs0[p].dirs # {})}
ScannedCands == ScannedItems(FOLDER_C)
ScannedRefs == ScannedItems(FOLDER_A)

\* position of an item in the listing of its folder
ListPos(listing, p) == CHOOSE i \in 1..Len(listing) : listing[i] = p
ListedBefore(listing, p, q) == ListPos(listing, p) < ListPos(listing, q)

\* the report marks p as a duplicate inside C / names p as the kept one
DupMarked(p) ==
    \E i \in Lines : log_file[i].line = "group_delete" /\ log_file[i].path = p
KeptLine(p) ==
    \E i \in Lines : log_file[i].line = "group_keep" /\ log_file[i].path = p

\* the plan lines of the report about p for the given reason
PlanLines(p, reason) ==
    {i \in Lines : /\ log_file[i].line = "plan"
                   /\ log_file[i].target = p
                   /\ log_file[i].reason = reason}

\* every deletion decision of the report about p
Decisions(p) ==
    {i \in Lines : log_file[i].line = "group_delete" /\ log_file[i].path = p}
        \cup PlanLines(p, "identical") \cup PlanLines(p, "contained")

\* the candidates of one group of content_groups
GroupOf(p) ==
    UNION {Range(content_groups[j].paths) :
              j \in {j2 \in 1..Len(content_groups) :
                        \E i \in 1..Len(content_groups[j2].paths) :
                            content_groups[j2].paths[i] = p}}

Grouped == pc \notin {"scan", "failed", "group"}
AfterPassA == pc \notin {"scan", "failed", "group", "delete_dup"}
DeletePhases == {"delete_dup", "delete_identical", "delete_contained"}

\* containment as the glossary has it: a subset of the entries, with fewer entries
StrictlyInside(m1, m2) == SubContent(m1, m2) /\ m1.file_count < m2.file_count

\* |total(c) - total(r)| / max(total(c), total(r)) <= 0.15, for max > 0
RatioWithin(m1, m2) ==
    /\ Max(m1.total_size, m2.total_size) > 0
    /\ 100 * Abs(m1.total_size - m2.total_size) <= 15 * Max(m1.total_size, m2.total_size)

\* C4: pass 1 puts two candidates in one group iff they are identical; of a
\* group of more than one it keeps exactly one member and marks the others;
\* after pass 1 no two candidates left in folders_c are identical.
C4_SelfDedupGroups ==
    /\ Grouped =>
          \A p \in ScannedCands :
              LET group == GroupOf(p)
              IN /\ p \in group
                 /\ \A q \in ScannedCands :
                       q \in group <=> identical(kind, manifest_of(p), manifest_of(q))
                 /\ Cardinality({q \in group : ~DupMarked(q)}) = 1
    /\ pc = "delete_dup" =>
          \A p \in ScannedCands :
              DupMarked(p) <=> (p \in Range(to_delete) \/ p \notin {c.path : c \in Range(folders_c)})
    /\ AfterPassA =>
          /\ \A i, j \in 1..Len(folders_c) :
                i # j => ~identical(kind, folders_c[i].data, folders_c[j].data)
          /\ \A p \in ScannedCands : DupMarked(p) => p \notin {c.path : c \in Range(folders_c)}

\* pass 1 is over, it found a group of several candidates, and a candidate of
\* other content is left beside the kept one
C4_Witness ==
    /\ pc = "identical"
    /\ \E p, q \in ScannedCands : DupMarked(p) /\ q \in GroupOf(p) /\ ~DupMarked(q)
    /\ Len(folders_c) >= 2

\* C6: a candidate gets at most one deletion decision in a run, with one
\* recorded keeper; the keeper of an identical decision is the first reference
\* identical to it; a candidate identical to some reference is never tested
\* with contains, and the keeper of a containment decision is the first
\* reference that passes the containment test.
C6_OneDecisionFirstMatch ==
    /\ \A p \in ScannedCands :
          /\ Cardinality(Decisions(p)) <= 1
          /\ DupMarked(p) =>
                Cardinality({q \in GroupOf(p) : KeptLine(q)}) = 1
    /\ \A i \in Lines :
          log_file[i].line = "plan" =>
              LET c == log_file[i].target
                  r == log_file[i].keeper
              IN /\ c \in ScannedCands /\ r \in ScannedRefs
                 /\ log_file[i].reason = "identical" =>
                       /\ SameContent(manifest_of(c), manifest_of(r))
                       /\ \A r2 \in ScannedRefs :
                             ListedBefore(listdir_a, r2, r) =>
                                 ~SameContent(manifest_of(c), manifest_of(r2))
                 /\ log_file[i].reason = "contained" =>
                       /\ StrictlyInside(manifest_of(c), manifest_of(r))
                       /\ \A r2 \in ScannedRefs :
                             ListedBefore(listdir_a, r2, r) =>
                                 ~(/\ RatioWithin(manifest_of(c), manifest_of(r2))
                                   /\ StrictlyInside(manifest_of(c), manifest_of(r2)))
    /\ \A key \in processed_pairs \cup scanned_pairs :
          \A c \in ScannedCands :
              (key[1] = c \/ key[2] = c) =>
                  /\ ~DupMarked(c)
                  /\ \A r \in ScannedRefs : ~SameContent(manifest_of(c), manifest_of(r))

\* a finished run that took a decision of each kind, one of them on a
\* candidate identical to a reference
C6_Witness ==
    /\ pc = "done"
    /\ \E p, q, c \in ScannedCands :
          /\ DupMarked(p)
          /\ PlanLines(q, "identical") # {}
          /\ PlanLines(c, "contained") # {}

\* a finished run with a candidate identical to two references
C6_WitnessTwoMatches ==
    /\ pc = "done"
    /\ \E c \in ScannedCands :
          /\ PlanLines(c, "identical") # {}
          /\ Cardinality({r \in ScannedRefs : SameContent(manifest_of(c), manifest_of(r))}) >= 2

(***************************************************************************)
(* The example of the cross-reduction: candidate {a:10, b:20}, reference   *)
(* {a:10, b:20, c:30}.                                                     *)
(***************************************************************************)
ContentsAB == ("a" :> 10) @@ ("b" :> 20)
ContentsABC == ("a" :> 10) @@ ("b" :> 20) @@ ("c" :> 30)

IsAB(p) == manifest_of(p).contents = ContentsAB
IsABC(p) == manifest_of(p).contents = ContentsABC

\* a run over the pair of the example alone: every reference is {a:10, b:20,
\* c:30}, and c is a candidate {a:10, b:20} that pass 1 kept
ExampleRun(c) ==
    /\ c \in ScannedCands /\ IsAB(c) /\ ~DupMarked(c)
    /\ \A r \in ScannedRefs : IsABC(r)

\* C7 as claimed: in a finished run over the example, the candidate is on the
\* containment list with the reference as keeper, and is removed.
C7_ExampleMarkedContained ==
    pc = "done" =>
        \A c \in DOMAIN fs0 :
            ExampleRun(c) =>
                /\ \E i \in PlanLines(c, "contained") : IsABC(log_file[i].keeper)
                /\ c \notin DOMAIN fs

\* C7 as amended: the pair of the example has size ratio 30 / 60 > 0.15, so
\* it is skipped before the subset scan and yields no decision; in a run
\* over the example alone the candidate is retained.
C7_ExampleSkippedByPrefilter ==
    \A c \in ScannedCands :
        IsAB(c) =>
            /\ \A r \in ScannedRefs :
                  IsABC(r) =>
                      /\ pair_key(c, r) \notin scanned_pairs
                      /\ \A i \in PlanLines(c, "contained") : log_file[i].keeper # r
            /\ ExampleRun(c) =>
                  /\ c \in DOMAIN fs
                  /\ Decisions(c) = {}

\* a finished run over the example alone, whose containment pass reached the pair
C7_Witness ==
    /\ pc = "done"
    /\ \E c \in DOMAIN fs0 :
          /\ ExampleRun(c)
          /\ \E r \in ScannedRefs : pair_key(c, r) \in processed_pairs

\* the candidates the containment pass is run on: kept by pass 1 and
\* identical to no reference
InContainmentPass(c) ==
    /\ c \in ScannedCands
    /\ ~DupMarked(c)
    /\ \A r \in ScannedRefs : ~SameContent(manifest_of(c), manifest_of(r))

\* the containment pass is over, by its last turn or by an error
ContainmentOver == pc \in {"delete_contained", "done", "error"}

\* C8: once the containment pass is over, a candidate of the pass is marked
\* iff some reference is within the size ratio 0.15 of it, holds each of its
\* entries with the same size and has more entries; a pair of positive size
\* the pass reached was given the subset scan iff its ratio is at most 0.15.
C8_ContainedIff ==
    ContainmentOver =>
        /\ \A c \in DOMAIN fs0 :
              InContainmentPass(c) =>
                  (PlanLines(c, "contained") # {}
                      <=> \E r \in ScannedRefs :
                              /\ RatioWithin(manifest_of(c), manifest_of(r))
                              /\ StrictlyInside(manifest_of(c), manifest_of(r)))
        /\ \A key \in processed_pairs :
              LET m1 == manifest_of(key[1])
                  m2 == manifest_of(key[2])
              IN Max(m1.total_size, m2.total_size) > 0 =>
                     (key \in scanned_pairs <=> RatioWithin(m1, m2))

\* the statement of C8 for the runs that end without an error
C8_ContainedIffNoError ==
    pc = "error" \/ C8_ContainedIff

\* a candidate that is no later member of a group of pass 1
FirstOfContent(p) ==
    \A q \in ScannedCands :
        (q # p /\ SameContent(manifest_of(p), manifest_of(q)))
            => ListedBefore(listdir_c, p, q)

\* p matches no rule: first of its content in C, identical to no reference
\* and contained in no reference
MatchesNoRule(p) ==
    /\ p \in ScannedCands
    /\ FirstOfContent(p)
    /\ \A r \in ScannedRefs :
          /\ ~SameContent(manifest_of(p), manifest_of(r))
          /\ ~StrictlyInside(manifest_of(p), manifest_of(r))

\* the report lines that name p as the item they are about
LinesAbout(p) ==
    {i \in Lines :
        \/ log_file[i].line \in {"group_keep", "group_delete", "deleted", "delete_failed"}
               /\ log_file[i].path = p
        \/ log_file[i].line = "plan" /\ log_file[i].target = p}

\* C9 as claimed: a candidate that matches no rule is never deleted and no
\* line of the report is about it.
C9_RetainedNoLine ==
    \A p \in DOMAIN fs0 :
        MatchesNoRule(p) => (p \in DOMAIN fs /\ LinesAbout(p) = {})

\* C9 as amended: a candidate that matches no rule is never deleted, and the
\* only line of the report about it is the line that names it as the kept
\* member of its group of pass 1.
C9_RetainedNoDeletionLine ==
    \A p \in DOMAIN fs0 :
        MatchesNoRule(p) =>
            /\ p \in DOMAIN fs
            /\ \A i \in LinesAbout(p) : log_file[i].line = "group_keep"
            /\ KeptLine(p) => \E q \in ScannedCands : DupMarked(q) /\ q \in GroupOf(p)

\* a finished run that deleted some candidate and retained one that matches
\* no rule, the kept member of a group
C9_Witness ==
    /\ pc = "done"
    /\ fs # fs0
    /\ \E p \in DOMAIN fs0 : MatchesNoRule(p) /\ KeptLine(p)
    /\ \E p \in DOMAIN fs0 : MatchesNoRule(p) /\ ~KeptLine(p)

\* the candidates still held in folders_c that the current deletion list
\* does not name: the later passes have decisions to compute for them
LeftForLaterPasses ==
    SelectSeq(folders_c, LAMBDA item : item.path \notin Range(to_delete))

\* the decision lines of a report
DecisionLines(log) ==
    SelectSeq(log, LAMBDA l : l.line \in {"group", "group_keep", "group_delete", "plan"})

FirstListed(group) ==
    CHOOSE q \in group :
        \A q2 \in group : ListPos(listdir_c, q) <= ListPos(listdir_c, q2)

\* the member of a group with the lexically smallest path
SmallestPath(group) ==
    CHOOSE q \in group : \A q2 \in group : ~PathLess(q2, q)

\* the report of pass 1 keeps q of the group and marks every other member
KeepsExactly(group, q) ==
    /\ KeptLine(q) /\ ~DupMarked(q)
    /\ \A q2 \in group \ {q} : DupMarked(q2) /\ ~KeptLine(q2)

ReferenceRemovals == {m \in matched : m.rule \in {"same as A", "same as B"}}

\* C1: every plain file removed because it matches a reference file has, at
\* the start of the run, the same bytes as that reference file, in
\* process_regular_files and in remove_duplicates_and_matches alike
C1_RemovedEqualsReference ==
    \A m \in ReferenceRemovals : fsys0[m.removed] = fsys0[m.reference]

\* the part of C1 about process_regular_files alone
C1_RegularRemovedEqualsReference ==
    prog = "regular" => C1_RemovedEqualsReference

\* a file of C was removed that has the name and the size of a file of A
C1_WitnessRegular ==
    /\ prog = "regular"
    /\ \E m \in ReferenceRemovals : m.removed \notin DOMAIN fsys

\* a file of D was removed that has the name and the size of a file of B
C1_WitnessPlagiarism ==
    /\ prog = "plagiarism"
    /\ \E m \in ReferenceRemovals : m.removed \notin DOMAIN fsys

\* the targets the pass of a deletion phase planned, by the report
PlannedIn(phase) ==
    IF phase = "delete_dup" THEN {p \in ScannedCands : DupMarked(p)}
    ELSE IF phase = "delete_identical"
    THEN {p \in ScannedCands : PlanLines(p, "identical") # {}}
    ELSE {p \in ScannedCands : PlanLines(p, "contained") # {}}

\* the lines of the report that tell the outcome of a removal of p
Attempts(p) ==
    {i \in Lines : /\ log_file[i].line \in {"deleted", "delete_failed"}
                   /\ log_file[i].path = p}

\* the phases whose deletion loop is over
PhasesOver ==
    IF pc = "done" THEN DeletePhases
    ELSE IF pc \in {"contained", "delete_contained", "error"}
    THEN {"delete_dup", "delete_identical"}
    ELSE IF pc \in {"identical", "delete_identical"} THEN {"delete_dup"}
    ELSE {}

\* where a run goes on when the deletion loop of a phase is over
PassAfter(phase) ==
    IF phase = "delete_dup" THEN "identical"
    ELSE IF phase = "delete_identical" THEN "contained"
    ELSE "done"

\* a step that was refused a removal
RefusedStep == pc \in DeletePhases /\ fails' = fails + 1

\* C11: a refused removal does not abort: the failure is written to the
\* report, the loop goes on with the next target of the list or, after the
\* last one, with the next pass; once the loop of a phase is over every
\* target the pass planned has had its removal tried, exactly once.
C11_FailureDoesNotAbort ==
    /\ [](\A phase \in PhasesOver :
             \A p \in PlannedIn(phase) : Cardinality(Attempts(p)) = 1)
    /\ [][RefusedStep =>
             /\ log_file' = Append(log_file, [line |-> "delete_failed",
                                              path |-> Head(to_delete)])
             /\ to_delete' = Tail(to_delete)
             /\ pc' = IF to_delete' # <<>> THEN pc ELSE PassAfter(pc)]_vars

\* a finished run in which a removal was refused, a later target of the same
\* list was removed and a later pass took a decision
C11_Witness ==
    /\ pc = "done"
    /\ \E i, j, k \in Lines :
          /\ i < j /\ j < k
          /\ log_file[i].line = "delete_failed"
          /\ log_file[j].line = "deleted"
          /\ log_file[j].reason = "duplicate in C"
          /\ log_file[k].line = "plan"

\* the step of the executor on a target that is already gone: of a folder or
\* archive run, and of process_regular_files
AbsentItemTurn ==
    /\ pc \in DeletePhases
    /\ to_delete # <<>>
    /\ ~exists(fs, Head(to_delete))
    /\ to_delete' # to_delete

AbsentFileTurn ==
    /\ prog = "regular" /\ pcf = "delete"
    /\ f_idx <= Len(f_to_delete)
    /\ f_to_delete[f_idx] \notin DOMAIN fsys
    /\ f_idx' # f_idx \/ pcf' # pcf

C12_WitnessFile ==
    /\ prog = "regular" /\ pcf = "done"
    /\ \E i \in 1..Len(f_to_delete) :
          /\ f_to_delete[i] \notin DOMAIN fsys
          /\ \A m \in matched : m.removed # f_to_delete[i]

\* the file of C a line about a failed hash belongs to: the candidate of the
\* pair, which has the name of the file that could not be read
CandidateOf(path) == FPath("C", "", path.name)

HashFailures == {i \in 1..Len(f_log) : f_log[i].line = "hash_failed"}

\* the loop over files_c has ended
ComparisonOver == prog = "regular" /\ pcf \in {"delete", "summary", "done"}

\* the candidate files' pairs whose two hashes were computed and are equal
EqualPairs ==
    {c \in DOMAIN fsys0 : /\ c.root = "C"
                          /\ FPath("A", "", c.name) \in DOMAIN fsys0
                          /\ fsys0[FPath("A", "", c.name)] = fsys0[c]
                          /\ {c, FPath("A", "", c.name)} \cap unreadable = {}}

\* C13: in process_regular_files a pair one of whose hashes cannot be
\* computed is a non-match - its candidate is never on the deletion list and
\* stays on disk as it was - and the loop goes on: the turn that meets the
\* failure moves to the next candidate, and at the end of the loop every
\* candidate whose pair hashed equal is on the deletion list.
C13_HashFailureIsNonMatch ==
    /\ [](prog = "regular" =>
            /\ \A i \in HashFailures :
                  /\ CandidateOf(f_log[i].path) \notin Range(f_to_delete)
                  /\ CandidateOf(f_log[i].path) \in DOMAIN fsys
                  /\ fsys[CandidateOf(f_log[i].path)] = fsys0[CandidateOf(f_log[i].path)]
            /\ ComparisonOver => \A c \in EqualPairs : c \in Range(f_to_delete))
    /\ [][(prog = "regular" /\ unreadable' # unreadable) =>
            /\ f_to_delete' = f_to_delete
            /\ fsys' = fsys
            /\ Len(f_log') = Len(f_log) + 1
            /\ f_log'[Len(f_log')].line = "hash_failed"
            /\ IF f_idx < Len(files_c)
               THEN pcf' = "compare" /\ f_idx' = f_idx + 1
               ELSE pcf' \in {"delete", "summary"}]_vars

\* a finished run in which a hash failed and a candidate examined after the
\* failure was found equal to its reference and removed
C13_Witness ==
    /\ prog = "regular" /\ pcf = "done"
    /\ \E i \in HashFailures : \E j \in 1..Len(f_log) :
          /\ i < j
          /\ f_log[j].line = "plan"
          /\ f_log[j].target \notin DOMAIN fsys

\* C14: when check_7z_available finds no 7z, process_archives neither scans
\* nor changes anything: the run is at its start or has failed, no manifest
\* was built, no item of A or C was removed, nothing is planned and the
\* report has no line.
C14_MissingUtilityFailsFirst ==
    (kind = "archive" /\ seven_zip = "None") =>
        /\ pc \in {"scan", "failed"}
        /\ fs = fs0
        /\ folders_a = <<>> /\ folders_c = <<>>
        /\ to_delete = <<>>
        /\ log_file = <<>>

\* a failed run over a disk on which an archive of C equals an archive of A
C14_Witness ==
    /\ pc = "failed"
    /\ \E c \in DOMAIN fs, a \in DOMAIN fs :
          /\ c.root = FOLDER_C /\ a.root = FOLDER_A
          /\ fs[c] = fs[a]

\* the archives of E on which the listing fails
Unlisted == {a \in DOMAIN e_dir0 : ~e_dir0[a].listing}

\* C15: an archive whose listing fails is never judged contained in or a
\* duplicate of another archive and is never moved to F.
C15_UnlistedNeverJudged ==
    \A a \in Unlisted :
       /\ a \notin DOMAIN f_dir
       /\ \A i \in 1..Len(ck_log) :
             ck_log[i].line \in {"contained", "moved"} => ck_log[i].path # a

\* the folders that hold exactly one inaccessible file
OneDenied == {p \in DOMAIN fs0 : Cardinality(fs0[p].denied) = 1}

\* the access errors logged for the folder p
AccessErrors(p) ==
    {j \in 1..Len(logger_errors) :
        /\ logger_errors[j].line = "access_error"
        /\ logger_errors[j].path[1] = p}

\* C16: right after the scan of process_folders, a folder that holds exactly
\* one inaccessible file has its manifest: the manifest has every other file
\* with its size and every directory as a zero-size entry, it has no entry
\* for the inaccessible file, and exactly one access error was logged for
\* the folder.
C16_OneUnreadableFile ==
    (Scanned /\ kind = "folder") =>
        \A p \in OneDenied :
           /\ \E item \in Range(folders_a \o folders_c) :
                 /\ item.path = p
                 /\ \A f \in DOMAIN fs0[p].files \ fs0[p].denied :
                       /\ f \in DOMAIN item.data.contents
                       /\ item.data.contents[f] = fs0[p].files[f]
                 /\ \A d \in fs0[p].dirs :
                       /\ WithSlash(d) \in DOMAIN item.data.contents
                       /\ item.data.contents[WithSlash(d)] = 0
                 /\ item.data.file_count =
                       Cardinality(DOMAIN fs0[p].files) - 1 + Cardinality(fs0[p].dirs)
           /\ Cardinality(AccessErrors(p)) = 1

\* the folders of C were scanned and one of them holds an inaccessible file
C16_Witness ==
    /\ Scanned /\ kind = "folder"
    /\ \E p \in OneDenied : p.root = FOLDER_C /\ AccessErrors(p) # {}

\* tree t holds an empty directory where tree u holds an empty file of the
\* same name, and the two hold the same otherwise
DirWhereFile(t, u) ==
    \E n \in Names :
       /\ n \in t.dirs /\ n \notin DOMAIN t.files
       /\ n \in DOMAIN u.files /\ u.files[n] = 0 /\ n \notin u.dirs
       /\ t.dirs \ {n} = u.dirs
       /\ DOMAIN t.files = DOMAIN u.files \ {n}
       /\ \A f \in DOMAIN t.files : t.files[f] = u.files[f]

\* C17: two items one of which holds an empty directory where the other
\* holds an empty file of the same name have different manifests and are
\* not judged identical, in a folder run and in an archive run.
C17_DirAndFileDistinct ==
    Scanned =>
        \A p, q \in DOMAIN fs0 :
           DirWhereFile(fs0[p], fs0[q]) =>
               /\ manifest_of(p).contents # manifest_of(q).contents
               /\ ~identical(kind, manifest_of(p), manifest_of(q))

\* the same for a folder run alone
C17_FolderDirAndFileDistinct ==
    (Scanned /\ kind = "folder") =>
        \A p, q \in DOMAIN fs0 :
           DirWhereFile(fs0[p], fs0[q]) =>
               /\ manifest_of(p).contents # manifest_of(q).contents
               /\ ~identical(kind, manifest_of(p), manifest_of(q))

\* an archive of C that holds only the empty directory d was removed as
\* identical to an archive of A that holds only the empty file d
C17_ArchiveRemoved ==
    \E i \in 1..Len(log_file) :
       /\ kind = "archive"
       /\ log_file[i].line = "deleted"
       /\ log_file[i].reason = "identical to A"
       /\ fs0[log_file[i].path] = T_dir
       /\ \A q \in DOMAIN fs0 : q.root = FOLDER_A => fs0[q] = T_file

\* the archives of E whose chain of nested members never ends
SelfNested == {a \in DOMAIN e_dir0 : e_dir0[a].nested = "self"}

RECURSIVE deepest_call(_, _)
\* the depth of the deepest call of get_archive_contents made for an archive
deepest_call(arch, depth) ==
    IF ~arch.listing \/ depth > RecursionLimit \/ arch.nested = "none" THEN depth
    ELSE deepest_call(nested_archive(arch), depth + 1)

\* C18: the build of the content list of an archive whose chain of nested
\* members never ends fails closed: the archive gets no entry from below the
\* point where the recursion was cut, and it is neither moved, nor judged
\* contained, nor kept as the container or the original of another archive.
C18_NestingFailsClosed ==
    \A a \in SelfNested :
       /\ pck # "compare_archives" =>
             \A e \in get_archive_contents(e_dir0[a], 1) : Len(e[1]) = 1
       /\ a \notin DOMAIN f_dir
       /\ \A i \in 1..Len(ck_log) :
             /\ ck_log[i].path # a
             /\ ck_log[i].line \in {"contained", "moved"} => ck_log[i].keeper # a

\* the recursion on such an archive is cut by the interpreter alone, at
\* whatever depth its limit is, and the archive was moved to F all the same
C18_MovedAfterCut ==
    \E a \in SelfNested :
       /\ deepest_call(e_dir0[a], 1) = RecursionLimit + 1
       /\ a \in DOMAIN f_dir

\* the files remove_duplicates_and_matches has removed so far
RemovedByRun == {m.removed : m \in matched}

\* C19: remove_duplicates_and_matches logs no per-item error for a file it
\* has removed itself: a removal is attempted on existing paths only.
C19_NoErrorForRemoved ==
    prog = "plagiarism" =>
        \A i \in 1..Len(f_log) :
           f_log[i].line = "error" => f_log[i].path \notin RemovedByRun

\* the files removed under one rule
RemovedUnder(rule) == {m.removed : m \in {x \in matched : x.rule = rule}}

\* C20: when remove_duplicates_and_matches returns, removed_duplicates is
\* the number of duplicate copies removed from D and removed_matches the
\* number of files removed from D because they match a file of B.
C20_CountsEqualRemovals ==
    (prog = "plagiarism" /\ pcf = "done") =>
        /\ removed_duplicates = Cardinality(RemovedUnder("duplicate in D"))
        /\ removed_matches = Cardinality(RemovedUnder("same as B"))

\* a finished run that removed files of D and returns 0 for both counts
C20_RemovedButZero ==
    /\ prog = "plagiarism" /\ pcf = "done"
    /\ RemovedUnder("duplicate in D") # {}
    /\ RemovedUnder("same as B") # {}
    /\ removed_duplicates = 0 /\ removed_matches = 0

\* C21: at the end of a run of process_folders / process_archives every
\* candidate the report names as the kept copy of a group of duplicates is
\* still on disk.
C21_KeeperStillPresent ==
    pc = "done" =>
        \A i \in Lines :
           log_file[i].line = "group_keep" => exists(fs, log_file[i].path)

\* a finished run whose report keeps a candidate in pass 1 and deletes it as
\* identical to a reference in pass 2
C21_KeeperDeletedLater ==
    /\ pc = "done"
    /\ \E i, j \in Lines :
          /\ i < j
          /\ log_file[i].line = "group_keep"
          /\ log_file[j].line = "deleted"
          /\ log_file[j].reason = "identical to A"
          /\ log_file[j].path = log_file[i].path

\* the same happens in find_archive_containment: an archive logged as the
\* container of another one is moved to F afterwards
C21_CheckKeeperMoved ==
    /\ pck = "done"
    /\ \E i, j \in 1..Len(ck_log) :
          /\ i < j
          /\ ck_log[i].line = "contained"
          /\ ck_log[j].line = "moved"
          /\ ck_log[j].path = ck_log[i].keeper

\* the candidates the run has removed
DeletedCands == {c \in DOMAIN fs0 : c.root = FOLDER_C /\ ~exists(fs, c)}

\* every file the item c held at the start is held, under the same relative
\* path and with the same size, by an item that is still on disk
ContentKept(c) ==
    \A f \in DOMAIN fs0[c].files :
       \E q \in DOMAIN fs :
          /\ f \in DOMAIN fs[q].files
          /\ fs[q].files[f] = fs0[c].files[f]

\* C22: at the end of a run of process_folders every file of every deleted
\* candidate folder is still held, with its relative path and size, by an
\* item that is present - whether or not the scan could read every file.
C22_NoContentLost ==
    (kind = "folder" /\ pc = "done") => \A c \in DeletedCands : ContentKept(c)

\* the same for the deleted candidates all of whose files the scan could read
C22_ReadableNoContentLost ==
    (kind = "folder" /\ pc = "done") =>
        \A c \in DeletedCands : fs0[c].denied = {} => ContentKept(c)

\* the root a program deletes from
CandidateRoot == IF prog = "plagiarism" THEN "D" ELSE FOLDER_C

\* C23: the references are never modified.  Every item or file that a run
\* of process_folders, process_archives or process_regular_files has removed
\* lies under C, every file remove_duplicates_and_matches has removed lies
\* under D, nothing is created, and every item under A and every file under
\* A or B is on disk as it was at the start.
C23_ReferencesUntouched ==
    /\ DOMAIN fs \subseteq DOMAIN fs0
    /\ \A p \in DOMAIN fs0 :
          IF p.root = FOLDER_C THEN exists(fs, p) => fs[p] = fs0[p]
          ELSE exists(fs, p) /\ fs[p] = fs0[p]
    /\ \A i \in Lines :
          log_file[i].line \in {"deleted", "delete_failed"} =>
              log_file[i].path.root = FOLDER_C
    /\ DOMAIN fsys \subseteq DOMAIN fsys0
    /\ \A q \in DOMAIN fsys0 :
          IF q.root = CandidateRoot THEN q \in DOMAIN fsys => fsys[q] = fsys0[q]
          ELSE q \in DOMAIN fsys /\ fsys[q] = fsys0[q]

\* a finished run that removed a candidate identical to a reference
C23_Witness ==
    /\ pc = "done"
    /\ \E i \in Lines : /\ log_file[i].line = "deleted"
                         /\ log_file[i].reason = "identical to A"
                         /\ ~exists(fs, log_file[i].path)

\* finished runs of the two programs over plain files that removed a file
C23_WitnessRegular ==
    prog = "regular" /\ pcf = "done" /\ DOMAIN fsys # DOMAIN fsys0

C23_WitnessPlagiarism ==
    prog = "plagiarism" /\ pcf = "done" /\ DOMAIN fsys # DOMAIN fsys0

\* the candidates and references of the containment pass whose manifests
\* both have total size 0
ZeroPairs ==
    {<<c, a>> \in ScannedCands \X ScannedRefs :
        /\ exists(fs, c)
        /\ manifest_of(c).total_size = 0
        /\ manifest_of(a).total_size = 0}

\* C24: the containment pass of process_folders / process_archives raises
\* no error, whatever the total sizes of the manifests it compares - two
\* manifests of total size 0 included: a run is never left through the
\* error raised by the size ratio.
C24_ContainmentCompletes == pc # "error"

\* the run has stopped with an error at a pair of two manifests of total size 0
C24_StoppedAtZeroPair ==
    /\ pc = "error"
    /\ ZeroPairs # {}

\* the archives / directories that a containment function selected: those
\* its log names as contained in another one
SelectedArchives ==
    {ck_log[i].path : i \in {j \in DOMAIN ck_log : ck_log[j].line = "contained"}}

SelectedDirectories ==
    {ck_log[i].path : i \in {j \in DOMAIN ck_log : ck_log[j].line = "contained_dir"}}

\* the entry set the functions compare an archive / a directory by
ArchiveEntries(a) == get_archive_contents(e_dir0[a], 1)

DirectoryEntries(d) == get_directory_contents(e_sub0[d])

\* C25: after find_archive_containment / find_directory_containment, every
\* item that was selected to be moved to F, and every item that is in F, has
\* an entry set that is a subset of the entry set of an item that was not
\* selected and is still in E - whatever the order of enumeration, for
\* chains of subsets and for items with equal entry sets.
C25_SupersetRemains ==
    /\ pck \in {"compare_directories", "find_directory_containment", "done"} =>
          \A s \in SelectedArchives \cup DOMAIN f_dir :
             \E k \in DOMAIN e_dir \ SelectedArchives :
                ArchiveEntries(s) \subseteq ArchiveEntries(k)
    /\ pck = "done" =>
          \A s \in SelectedDirectories \cup DOMAIN f_sub :
             \E k \in DOMAIN e_sub \ SelectedDirectories :
                DirectoryEntries(s) \subseteq DirectoryEntries(k)

\* a chain of three archives, listed with the middle one first: the middle
\* one is logged as the keeper of the smallest and is itself moved, the
\* largest stays in E
C25_Witness ==
    /\ pck = "done"
    /\ \E a, b, c \in DOMAIN e_dir0 :
          /\ ArchiveEntries(a) \subseteq ArchiveEntries(b)
          /\ ArchiveEntries(a) # ArchiveEntries(b)
          /\ ArchiveEntries(b) \subseteq ArchiveEntries(c)
          /\ ArchiveEntries(b) # ArchiveEntries(c)
          /\ \E i \in DOMAIN ck_log :
                ck_log[i] = [line |-> "contained", path |-> a, keeper |-> b]
          /\ {a, b} \subseteq DOMAIN f_dir
          /\ c \in DOMAIN e_dir

\* the same chain of three directories
C25_WitnessDirectories ==
    /\ pck = "done"
    /\ \E a, b, c \in DOMAIN e_sub0 :
          /\ DirectoryEntries(a) \subseteq DirectoryEntries(b)
          /\ DirectoryEntries(a) # DirectoryEntries(b)
          /\ DirectoryEntries(b) \subseteq DirectoryEntries(c)
          /\ DirectoryEntries(b) # DirectoryEntries(c)
          /\ \E i \in DOMAIN ck_log :
                ck_log[i] = [line |-> "contained_dir", path |-> a, keeper |-> b]
          /\ {a, b} \subseteq DOMAIN f_sub
          /\ c \in DOMAIN e_sub

\* two items with equal entry sets reach the containment function (the move
\* of the duplicate was refused): one of them is selected, the other stays
C25_WitnessEqualSets ==
    /\ pck = "done"
    /\ \E a, b \in DOMAIN e_sub0 :
          /\ a # b
          /\ DirectoryEntries(a) = DirectoryEntries(b)
          /\ \E i \in DOMAIN ck_log :
                ck_log[i].line = "move_dir_failed" /\ ck_log[i].path = a
          /\ a \in SelectedDirectories \/ b \in SelectedDirectories
          /\ {a, b} \cap DOMAIN e_sub # {}

\* the lines of the run of process_d_folder
ULines == DOMAIN u_log

\* extract_archive returned True for the path in the given round
ExtractedIn(lines, path, round) ==
    \E i \in DOMAIN lines :
       lines[i] = [line |-> "extract_ok", path |-> path, round |-> round]

\* the archives every extraction attempt of which has failed so far
AlwaysFailed ==
    {u_log[i].path : i \in {j \in ULines : u_log[j].line = "skipped"}}
        \ {u_log[i].path : i \in {j \in ULines : u_log[j].line = "extract_ok"}}

\* C26: process_d_folder removes an archive below D only in the step in
\* which extract_archive returned True for that archive, in the same round;
\* an archive every extraction attempt of which failed is never removed: it
\* is below D at every moment, and so when the function returns.
C26_DeletedOnlyAfterSuccess ==
    /\ [](\A path \in AlwaysFailed : path \in DOMAIN d_disk)
    /\ [][\A path \in DOMAIN d_disk :
             (path \notin DOMAIN d_disk' /\ is_compressed_file(path)) =>
                 /\ ExtractedIn(u_log', path, iteration + 1)
                 /\ ~ExtractedIn(u_log, path, iteration + 1)]_vars

\* the function has returned; one archive was extracted and deleted, another
\* one failed in each of the max_iterations rounds and is still below D
C26_Witness ==
    /\ pcu = "done"
    /\ \E i \in ULines : u_log[i].line = "deleted"
    /\ \E path \in AlwaysFailed :
          /\ path \in DOMAIN d_disk
          /\ \A r \in 1..max_iterations :
                \E i \in ULines :
                   u_log[i] = [line |-> "skipped", path |-> path, round |-> r]

\* an archive that failed is overwritten by the extraction of another
\* archive, and the file then at its path is extracted and deleted
C26_OverwrittenThenDeleted ==
    \E i, j, k \in ULines :
       /\ i < j /\ j < k
       /\ u_log[i].line = "skipped"
       /\ u_log[j].line = "extract_ok"
       /\ u_log[k].line = "deleted"
       /\ u_log[k].path = u_log[i].path
       /\ d_disk0[u_log[i].path].kind = "bad"

\* the archive files below D
ArchivesBelow(disk) ==
    {path \in DOMAIN disk : disk[path].type = "file" /\ is_compressed_file(path)}

\* C27: process_d_folder makes at most max_iterations = 100 scan rounds;
\* when it has returned before the 100th round, no archive file is left
\* anywhere below D.
C27_BoundedAndComplete ==
    /\ iteration + 1 <= max_iterations
    /\ (pcu = "done" /\ iteration + 1 < max_iterations) =>
          ArchivesBelow(d_disk) = {}

\* the rounds are bounded
C27_AtMostMaxRounds ==
    /\ iteration + 1 <= max_iterations
    /\ \A i \in ULines : u_log[i].line = "round" => u_log[i].round <= max_iterations

\* the function returned in the first round, "none found", and an archive
\* lies in a directory that could not be listed
C27_ReturnedOverUnlisted ==
    /\ pcu = "done"
    /\ iteration = 0
    /\ \E path \in ArchivesBelow(d_disk) :
          \E k \in 1..(Len(path) - 1) : ~d_disk[SubSeq(path, 1, k)].listable

\* the function was left by the FileExistsError of mkdir, archives remain
C27_RaisedInFirstRound ==
    /\ pcu = "error"
    /\ iteration = 0
    /\ ArchivesBelow(d_disk) # {}

\* an archive that is never extracted, and extractions that each produce a
\* further archive, keep the loop going until the last round
C27_LastRoundReached ==
    /\ pcu = "done"
    /\ \E i \in ULines : u_log[i].line = "max_reached"
    /\ \E path \in ArchivesBelow(d_disk) : Len(path) > max_iterations

\* where every directory can be listed and mkdir does not raise, a return
\* before the last round leaves no archive
C27_CompleteWhereListed ==
    (/\ pcu = "done"
     /\ iteration + 1 < max_iterations
     /\ \A path \in DOMAIN d_disk0 :
           d_disk0[path].type = "dir" => d_disk0[path].listable) =>
        ArchivesBelow(d_disk) = {}

\* the runs of process_d_folder in which a step that can be taken is taken
SpecUnpackFair == SpecUnpack /\ WF_vars(NextUnpack)

\* the run ends: the function returns or is left by an exception
C27_Terminates == <>(pcu \in {"done", "error"})

====
